---------------------------- MODULE Spec2Model ----------------------------
(***************************************************************************)
(* Model of the telegram-to-x publish queue (QueueManager), its producer   *)
(* (TelegramListener) and the shutdown handler of index.js.                *)
(*                                                                         *)
(* JavaScript runs one callback at a time: an action of this model is one  *)
(* synchronous run of code, from the resumption of an await (or the start  *)
(* of a handler) up to the next await.  Times are in milliseconds.         *)
(***************************************************************************)
EXTENDS Integers, Sequences, FiniteSets, TLC

(* ------------------------------ bounds -------------------------------- *)
\* number of addToQueue calls made over one run
MaxJobs == 3
\* number of processQueue invocations that can be alive at the same time
MaxWorkers == 2
\* number of Telegram messages received over one run
MaxMsgs == 3
\* number of distinct media_group_id values
MaxGroups == 1
\* postTweet calls of a run
MaxCalls == 2
\* changes of the site that no action of the code causes, per publishTweet
MaxChanges == 1
\* number of image files of one postTweet call
MaxFiles == 2
\* characters of the longest caption after its first 20
MaxTail == 2
\* number of log() calls made by the application
MaxLogs == 2
\* number of sendPhoto() calls made by the application
MaxPhotos == 1

(* --------------------------- input domains ---------------------------- *)
\* an environment variable is <<>> (unset) or <<n>> (set to the number n)
EnvPostDelay == {<<>>, <<10000>>}
EnvMaxRetries == {<<>>, <<0>>, <<1>>}
EnvRetryDelay == {<<>>, <<10000>>}
\* amounts by which the clock advances in one step
TickSteps == {5000}
\* the producer of a run: TelegramListener.addToQueue, or a caller that
\* supplies postData.processor
Producers == {"listener", "caller"}

VARIABLES
  env,          \* process.env: QUEUE_POST_DELAY, QUEUE_MAX_RETRIES, QUEUE_RETRY_DELAY
  queue,        \* QueueManager.queue
  isProcessing, \* QueueManager.isProcessing
  nextId,       \* number of addToQueue calls so far + 1 (stands for the id of the job)
  pendingAdds,  \* addToQueue calls suspended in `await this.logger.log` (line 26)
  workers,      \* processQueue invocations: position, local postData, running timer
                \* and the argument of the last delay() call
  shutdown,     \* position of the SIGINT handler of index.js
  clearedCount, \* SIGINT handler: const clearedCount = queueManager.clearQueue()
  \* history variables (not program state)
  hist,         \* per job: runs, fails, pipeline, reported, ok
  producer,     \* who calls QueueManager.addToQueue in this run
  started,      \* <<id of the job started before the last one, id of the last job started>>
  sinceOk,      \* ms since the last successful processPost that left a backlog, -1 if none
  startGap      \* value of sinceOk when the last job was started

VARIABLES
  tempCleanupEnabled, \* config.app.tempCleanupEnabled
  arrived,      \* number of messages received so far
  tasks,        \* running handlers: handleNewMessage (single image) and processMediaGroup
  arrays,       \* length of each message array ever stored in mediaGroups
  nextArr,      \* number of arrays created so far + 1
  mediaGroups,  \* TelegramListener.mediaGroups: group id -> array (0: no entry)
  timerMap,     \* TelegramListener.mediaGroupTimers: state of the timer stored per group
  orphans       \* armed timers whose map entry was deleted or replaced without clearTimeout

lvars == <<tempCleanupEnabled, arrived, tasks, arrays, nextArr, mediaGroups, timerMap, orphans>>

qvars == <<env, queue, isProcessing, nextId, pendingAdds, workers, shutdown,
           clearedCount, hist, producer, started, sinceOk, startGap>>

VARIABLES
  twitterEnv,   \* process.env: TWITTER_MAX_RETRIES, TWITTER_RETRY_DELAY
  browser,      \* TwitterPoster.browser: 0 for null, else the number of the launched browser
  page,         \* TwitterPoster.page: 0 for null, else the browser the page belongs to
  isLoggedIn,   \* TwitterPoster.isLoggedIn
  alive,        \* launched browsers whose process is running
  calls,        \* postTweet calls: state of the Promise.race and its reject timer
  runs,         \* the postTweetWithRetry chain of each call: position, attempt, timer
  killTimer,    \* closeBrowser: the 5 s timer of the last closeBrowser of each call
  disk          \* the files the poster reads and writes.  session: the browser whose
                \* cookies the file config.paths.cookies holds, 0 for the file as it
                \* was at the start; files: the image files of the latest postTweet
                \* call that exist

pvars == <<twitterEnv, browser, page, isLoggedIn, alive, calls, runs,
           killTimer, disk>>

VARIABLES
  pg,           \* the page of the browser as publishTweet can observe it
  profileLinks, \* the profile page of the account shows status links
  pub,          \* the running publishTweet: position, loop variables, result
  changes       \* number of times the site has changed by itself

vvars == <<pg, profileLinks, pub, changes>>

VARIABLES
  up,           \* the running uploadImages: position, locals, result
  cap,          \* the running addCaption: position, the text surface, result
  lg            \* the TelegramLogger: its fields, its running calls, the clock of its sends

uvars == <<up, cap, lg>>

ovars == <<pvars, vvars, uvars>>

vars == <<qvars, lvars, ovars>>

(* ------------------------------ config.js ----------------------------- *)
\* parseInt(process.env.X) || d
ParseIntOr(v, d) == IF v = <<>> THEN d ELSE IF v[1] = 0 THEN d ELSE v[1]

\* config.queue
configQueue ==
  [ postDelay  |-> ParseIntOr(env.QUEUE_POST_DELAY, 20000),
    maxRetries |-> ParseIntOr(env.QUEUE_MAX_RETRIES, 2),
    retryDelay |-> ParseIntOr(env.QUEUE_RETRY_DELAY, 5000) ]

(* ----------------------- QueueManager.constructor --------------------- *)
\* this.postDelay = config.postDelay || 20000
postDelay == IF configQueue.postDelay = 0 THEN 20000 ELSE configQueue.postDelay

\* this.maxRetries = config.maxRetries || 2
maxRetries == IF configQueue.maxRetries = 0 THEN 2 ELSE configQueue.maxRetries

(* ------------------------------ helpers ------------------------------- *)
Jobs == 1..MaxJobs
Workers == 1..MaxWorkers

NoJob == [id |-> 0, retries |-> 0, processor |-> FALSE]
Idle == [pc |-> "idle", postData |-> NoJob, timer |-> 0, delayMs |-> 0]

Min(a, b) == IF a < b THEN a ELSE b
Max(a, b) == IF a > b THEN a ELSE b

QueueIds == {queue[i].id : i \in 1..Len(queue)}

\* the process has not called process.exit
Running == shutdown # "exited"

\* positions of processQueue inside its while loop (lines 41-81)
LoopPcs == {"logProcessing", "processor", "logWaiting", "postDelay",
            "logError", "logRetry", "retryDelay", "logFailed"}
\* positions where the job taken at line 42 is being processed (lines 42-61)
InFlightPcs == {"logProcessing", "processor", "logError"}

Bump(j, f) == [hist EXCEPT ![j][f] = @ + 1]

(* ------------------------------- Init --------------------------------- *)
QInit ==
  /\ env \in [ QUEUE_POST_DELAY : EnvPostDelay,
               QUEUE_MAX_RETRIES : EnvMaxRetries,
               QUEUE_RETRY_DELAY : EnvRetryDelay ]
  /\ queue = <<>>
  /\ isProcessing = FALSE
  /\ nextId = 1
  /\ pendingAdds = 0
  /\ workers = [w \in Workers |-> Idle]
  /\ shutdown = "running"
  /\ clearedCount = 0
  /\ hist = [j \in Jobs |-> [runs |-> 0, fails |-> 0, pipeline |-> 0, reported |-> 0, ok |-> 0]]
  /\ producer \in Producers
  /\ started = <<0, 0>>
  /\ sinceOk = -1
  /\ startGap = -1

(* ------------------- QueueManager.processQueue ------------------------ *)
\* line 35: if (this.isProcessing || this.queue.length === 0) return
EntryGuard == isProcessing \/ Len(queue) = 0

\* lines 41-46 and 83-86: the loop test with queue value q (h, s: the history
\* after the step so far).  Either the head is shifted and its processing
\* starts (up to the await of line 46), or the loop ends, isProcessing is
\* reset and the invocation waits for its completion log (line 86).
WhileLoop(w, q, h, s, flag) ==
  IF Len(q) > 0
  THEN /\ queue' = Tail(q)
       /\ workers' = [workers EXCEPT ![w] =
                        [pc |-> "logProcessing", postData |-> Head(q), timer |-> 0, delayMs |-> 0]]
       /\ isProcessing' = flag
       /\ hist' = [h EXCEPT ![Head(q).id].runs = @ + 1]
       /\ started' = <<started[2], Head(q).id>>
       /\ startGap' = s
       /\ sinceOk' = -1
  ELSE /\ queue' = q
       /\ workers' = [workers EXCEPT ![w] =
                        [pc |-> "logCompleted", postData |-> NoJob, timer |-> 0, delayMs |-> 0]]
       /\ isProcessing' = FALSE
       /\ hist' = h
       /\ sinceOk' = s
       /\ UNCHANGED <<started, startGap>>

processQueueStart_noFlag(w) ==
  WhileLoop(w, queue, hist, sinceOk, isProcessing)

\* lines 39-46: this.isProcessing = true, then the first pass of the loop
processQueueStart(w) ==
  WhileLoop(w, queue, hist, sinceOk, TRUE)

\* the lowest free slot for a new processQueue invocation
FreeSlots == {w \in Workers : workers[w].pc = "idle"}
FreeSlot == CHOOSE w \in FreeSlots : \A v \in FreeSlots : w <= v

\* line 34: a call of processQueue()
processQueue ==
  IF EntryGuard
  THEN UNCHANGED <<queue, workers, isProcessing, hist, started, startGap, sinceOk>>
  ELSE /\ FreeSlots # {}
       /\ processQueueStart(FreeSlot)

(* --------------------- QueueManager.addToQueue ------------------------ *)
\* lines 18-26: push the job, then await the logger
addToQueue(hasProcessor, who) ==
  /\ Running
  /\ producer = who
  /\ nextId <= MaxJobs
  /\ queue' = Append(queue, [id |-> nextId, retries |-> 0, processor |-> hasProcessor])
  /\ nextId' = nextId + 1
  /\ pendingAdds' = pendingAdds + 1
  /\ UNCHANGED <<env, producer, isProcessing, workers, shutdown, clearedCount, hist,
                 started, sinceOk, startGap>>

\* a caller that supplies postData.processor
CallerAddToQueue == addToQueue(TRUE, "caller") /\ UNCHANGED <<ovars, lvars>>

\* TelegramListener.addToQueue: postData = {images, caption, channelName}
ListenerAddToQueue == addToQueue(FALSE, "listener") /\ UNCHANGED <<ovars, lvars>>

ShouldStart_never == FALSE

\* line 29: if (!this.isProcessing)
ShouldStart == ~isProcessing

\* lines 29-31: the logger call of line 26 has resolved
AddToQueueResume ==
  /\ Running
  /\ pendingAdds > 0
  /\ pendingAdds' = pendingAdds - 1
  /\ IF ShouldStart
     THEN processQueue
     ELSE UNCHANGED <<queue, workers, isProcessing, hist, started, startGap, sinceOk>>
  /\ UNCHANGED <<ovars, lvars, env, nextId, shutdown, clearedCount, producer>>

(* ------------- QueueManager.processQueue: inside the loop ------------- *)
At(w, pc) == Running /\ workers[w].pc = pc

\* lines 49 and 93-97: processPost calls the processor or throws
LogProcessingDone(w) ==
  /\ At(w, "logProcessing")
  /\ LET job == workers[w].postData IN
     IF job.processor
     THEN /\ workers' = [workers EXCEPT ![w].pc = "processor"]
          /\ hist' = Bump(job.id, "pipeline")
     ELSE /\ workers' = [workers EXCEPT ![w].pc = "logError"]
          /\ hist' = Bump(job.id, "fails")
  /\ UNCHANGED <<ovars, lvars, env, queue, isProcessing, nextId, pendingAdds, shutdown,
                 clearedCount, producer, started, sinceOk, startGap>>

NeedsPostDelay_never == FALSE

\* line 52: if (this.queue.length > 0)
NeedsPostDelay == Len(queue) > 0

\* lines 49-54: the processor resolved
ProcessorOk(w) ==
  /\ At(w, "processor")
  /\ LET job == workers[w].postData
         h == Bump(job.id, "ok")
         s == IF Len(queue) > 0 THEN 0 ELSE -1
     IN IF NeedsPostDelay
        THEN /\ workers' = [workers EXCEPT ![w].pc = "logWaiting"]
             /\ hist' = h
             /\ sinceOk' = s
             /\ UNCHANGED <<queue, isProcessing, started, startGap>>
        ELSE WhileLoop(w, queue, h, s, isProcessing)
  /\ UNCHANGED <<ovars, lvars, env, nextId, pendingAdds, shutdown, clearedCount, producer>>

\* lines 59-61: the processor rejected
ProcessorThrow(w) ==
  /\ At(w, "processor")
  /\ workers' = [workers EXCEPT ![w].pc = "logError"]
  /\ hist' = Bump(workers[w].postData.id, "fails")
  /\ UNCHANGED <<ovars, lvars, env, queue, isProcessing, nextId, pendingAdds, shutdown,
                 clearedCount, producer, started, sinceOk, startGap>>

\* line 56: the argument of this.delay(this.postDelay)
InterPostDelayMs == postDelay

\* line 56: await this.delay(this.postDelay)
LogWaitingDone(w) ==
  /\ At(w, "logWaiting")
  /\ workers' = [workers EXCEPT ![w].pc = "postDelay", ![w].timer = InterPostDelayMs,
                                ![w].delayMs = InterPostDelayMs]
  /\ UNCHANGED <<ovars, lvars, env, queue, isProcessing, nextId, pendingAdds, shutdown,
                 clearedCount, hist, producer, started, sinceOk, startGap>>

MayRetry_offByOne(job) == job.retries <= maxRetries
MayRetry_never(job) == FALSE

\* line 65: if (postData.retries < this.maxRetries)
MayRetry(job) == job.retries < maxRetries

RetryRequeue_push(q, job) == Append(q, job)

\* line 67: this.queue.unshift(postData)
RetryRequeue(q, job) == <<job>> \o q

\* lines 65-70 and 75-77: retry or give up
LogErrorDone(w) ==
  /\ At(w, "logError")
  /\ LET job == workers[w].postData
         retried == [job EXCEPT !.retries = @ + 1]
     IN IF MayRetry(job)
        THEN /\ queue' = RetryRequeue(queue, retried)
             /\ workers' = [workers EXCEPT ![w].pc = "logRetry", ![w].postData = retried]
             /\ hist' = hist
        ELSE /\ queue' = queue
             /\ workers' = [workers EXCEPT ![w].pc = "logFailed"]
             /\ hist' = Bump(job.id, "reported")
  /\ UNCHANGED <<ovars, lvars, env, isProcessing, nextId, pendingAdds, shutdown,
                 clearedCount, producer, started, sinceOk, startGap>>

\* line 74: the argument of this.delay(5000 * postData.retries)
RetryDelayMs(job) == 5000 * job.retries

\* line 74: await this.delay(5000 * postData.retries)
LogRetryDone(w) ==
  /\ At(w, "logRetry")
  /\ workers' = [workers EXCEPT ![w].pc = "retryDelay",
                                ![w].timer = RetryDelayMs(workers[w].postData),
                                ![w].delayMs = RetryDelayMs(workers[w].postData)]
  /\ UNCHANGED <<ovars, lvars, env, queue, isProcessing, nextId, pendingAdds, shutdown,
                 clearedCount, hist, producer, started, sinceOk, startGap>>

\* lines 56 / 74 then 41: the timer of delay() has fired
DelayDone(w) ==
  /\ Running
  /\ workers[w].pc \in {"postDelay", "retryDelay"}
  /\ workers[w].timer = 0
  /\ WhileLoop(w, queue, hist, sinceOk, isProcessing)
  /\ UNCHANGED <<ovars, lvars, env, nextId, pendingAdds, shutdown, clearedCount, producer>>

\* lines 77 then 41: the job was dropped, back to the loop test
LogFailedDone(w) ==
  /\ At(w, "logFailed")
  /\ WhileLoop(w, queue, hist, sinceOk, isProcessing)
  /\ UNCHANGED <<ovars, lvars, env, nextId, pendingAdds, shutdown, clearedCount, producer>>

\* lines 86-88: the invocation returns
LogCompletedDone(w) ==
  /\ At(w, "logCompleted")
  /\ workers' = [workers EXCEPT ![w] = Idle]
  /\ UNCHANGED <<ovars, lvars, env, queue, isProcessing, nextId, pendingAdds, shutdown,
                 clearedCount, hist, producer, started, sinceOk, startGap>>

(* ------------------------------- time --------------------------------- *)
\* setTimeout: the clock advances by d, running timers count down
Tick(d) ==
  /\ Running
  /\ \/ \E w \in Workers : workers[w].timer > 0
     \/ sinceOk >= 0 /\ sinceOk < postDelay
  /\ workers' = [w \in Workers |-> [workers[w] EXCEPT !.timer = Max(0, @ - d)]]
  /\ sinceOk' = IF sinceOk >= 0 THEN Min(sinceOk + d, postDelay) ELSE sinceOk
  /\ UNCHANGED <<ovars, lvars, env, queue, isProcessing, nextId, pendingAdds, shutdown,
                 clearedCount, hist, producer, started, startGap>>

(* ----------------- index.js: SIGINT handler, clearQueue --------------- *)
\* the length read after the array was replaced
clearQueueCount_after == Len(<<>>)

\* QueueManager.clearQueue line 113: const clearedCount = this.queue.length
clearQueueCount == Len(queue)

\* index.js 166-173: clearQueue(), then the first logger call
Sigint ==
  /\ shutdown = "running"
  /\ clearedCount' = clearQueueCount
  /\ queue' = <<>>
  /\ shutdown' = IF clearedCount' > 0 THEN "logCleared" ELSE "logShutdown"
  /\ UNCHANGED <<ovars, lvars, env, isProcessing, nextId, pendingAdds, workers, hist,
                 producer, started, sinceOk, startGap>>

\* index.js 172-175
SigintLogClearedDone ==
  /\ shutdown = "logCleared"
  /\ shutdown' = "logShutdown"
  /\ UNCHANGED <<ovars, lvars, env, queue, isProcessing, nextId, pendingAdds, workers, clearedCount,
                 hist, producer, started, sinceOk, startGap>>

\* index.js 175-176: process.exit(0)
SigintExit ==
  /\ shutdown = "logShutdown"
  /\ shutdown' = "exited"
  /\ UNCHANGED <<ovars, lvars, env, queue, isProcessing, nextId, pendingAdds, workers, clearedCount,
                 hist, producer, started, sinceOk, startGap>>

(* ============================ TwitterPoster ============================ *)
Calls == 1..MaxCalls

\* values of the environment variables read by config.twitter
EnvTwitterMaxRetries == {<<>>, <<1>>}
EnvTwitterRetryDelay == {<<>>}

\* config.twitter.maxRetries, config.twitter.retryDelay
configTwitter ==
  [ maxRetries |-> ParseIntOr(twitterEnv.TWITTER_MAX_RETRIES, 2),
    retryDelay |-> ParseIntOr(twitterEnv.TWITTER_RETRY_DELAY, 5000) ]

\* constructor: this.maxRetries = config.twitter?.maxRetries || 2
twitterMaxRetries == IF configTwitter.maxRetries = 0 THEN 2 ELSE configTwitter.maxRetries

\* constructor: this.retryDelay = config.twitter?.retryDelay || 5000
twitterRetryDelay == IF configTwitter.retryDelay = 0 THEN 5000 ELSE configTwitter.retryDelay

postTweetTimeoutMs_doubled == 120000 + 120000
\* postTweet: this.postTweetWithTimeout(imagePaths, caption, 120000)
postTweetTimeoutMs == 120000

\* closeBrowser: the setTimeout raced against browser.close()
closeTimeoutMs == 5000

\* state: none, pending, resolved, rejected or timeout; deadline: remaining ms of the
\* reject timer; age: ms since the call while it is pending; error: the try whose
\* error rejected the call
NoCall == [state |-> "none", deadline |-> 0, age |-> 0, error |-> 0]

NoRun ==
  [ pc |-> "none",      \* the await the chain is suspended in
    attempt |-> 0,      \* the parameter attempt of the running postTweetWithRetry
    timer |-> 0,        \* remaining ms of the delay() before the next attempt
    mine |-> 0,         \* the browser whose newPage() this chain awaits
    target |-> 0,       \* the browser whose close() the last closeBrowser called
    hung |-> FALSE,     \* the awaited promise never settles
    lastError |-> 0,    \* the try whose error the last catch block received
    \* history of the chain (not program state)
    trace |-> <<>>,     \* the phases started in the running attempt
    tries |-> 0, fails |-> 0, closes |-> 0, succ |-> 0,
    latePhase |-> FALSE, \* the last step started a phase or a try after the race settled
    lateEvent |-> FALSE, \* the last step reported, submitted or deleted after the race settled
    reused |-> FALSE,    \* the last step found this.browser set by an earlier call
    gov |-> <<>>,        \* what the catch block has done since the last failed try
    waited |-> 0,        \* ms the running delay() has lasted
    login |-> "none",    \* the last step accepted the loaded session or logged in
    saved |-> FALSE,     \* the last step wrote the cookies file
    posted |-> 0 ]       \* the try whose submit click published the post, 0 if none
                         \* (kept until the chain has verified a post or given up)

\* the image files passed to one postTweet call
Files == 1..MaxFiles

PosterInit ==
  /\ browser = 0
  /\ page = 0
  /\ isLoggedIn = FALSE
  /\ alive = {}
  /\ calls = [c \in Calls |-> NoCall]
  /\ runs = [c \in Calls |-> NoRun]
  /\ killTimer = [c \in Calls |-> -1]
  /\ disk = [session |-> 0, files |-> {}]

\* the state of a process in which postTweet is never called
PosterIdle ==
  /\ PosterInit
  /\ twitterEnv = [TWITTER_MAX_RETRIES |-> <<>>, TWITTER_RETRY_DELAY |-> <<>>]

\* the chain of call d is not running
Quiescent(d) == runs[d].pc \in {"none", "returned", "thrown"}

\* the Promise.race of call c has settled
Late(c) == calls[c].state # "pending"

\* the flags that describe the last step of a chain
Plain(r) ==
  [r EXCEPT !.latePhase = FALSE, !.lateEvent = FALSE, !.reused = FALSE,
            !.login = "none", !.saved = FALSE]

\* the awaits inside initializeBrowser
InitPcs == {"launch", "newPage", "loadCookies"}

\* postTweetWithRetry 69-83 and publishTweet 710: the calls of the try block, in order
PhaseOrder ==
  << "initializeBrowser", "ensureLoggedIn", "navigateToCompose", "uploadImages",
     "addCaption", "publishTweet", "verifyTweetSuccess" >>

PhasePcs == InitPcs \cup {PhaseOrder[i] : i \in 2..Len(PhaseOrder)}

IndexOf(p) == CHOOSE i \in 1..Len(PhaseOrder) : PhaseOrder[i] = p

NextPhase_skipCaption(p) ==
  IF p = "uploadImages" THEN "publishTweet"
  ELSE IF p = "verifyTweetSuccess" THEN "logSuccess"
  ELSE PhaseOrder[IndexOf(p) + 1]
\* postTweetWithRetry 69-87: what the try block awaits after phase p returned
NextPhase(p) ==
  IF p = "verifyTweetSuccess" THEN "logSuccess" ELSE PhaseOrder[IndexOf(p) + 1]

\* the chain r of call c starts phase p
Enter(r, c, p) ==
  [r EXCEPT !.pc = p,
            !.trace = Append(@, p),
            !.latePhase = Late(c),
            !.lateEvent = Late(c) /\ p = "publishTweet"]

\* a number for the browser of the next puppeteer.launch
Browsers == 1..(3 * MaxCalls + 1)
InUse == alive \cup {browser, page} \cup {runs[c].mine : c \in Calls}
                \cup {runs[c].target : c \in Calls}
FreshBrowser == CHOOSE b \in Browsers \ InUse : \A x \in Browsers \ InUse : b <= x

\* postTweet 47-50, postTweetWithTimeout 52-59, postTweetWithRetry 61-66: the race and
\* its timer are created, the chain runs to its first await.  The callers are
\* sequential: a call is made when the chains of the earlier calls have ended.
postTweet(c) ==
  /\ calls[c].state = "none"
  /\ \A d \in Calls : d < c => calls[d].state # "none"
  /\ \A d \in Calls : Quiescent(d)
  /\ calls' = [calls EXCEPT ![c] = [NoCall EXCEPT !.state = "pending",
                                                  !.deadline = postTweetTimeoutMs]]
  /\ runs' = [runs EXCEPT ![c] = [NoRun EXCEPT !.pc = "logStart", !.tries = 1]]
  /\ disk' = [disk EXCEPT !.files = Files]
  /\ UNCHANGED <<qvars, lvars, vvars, uvars, twitterEnv, browser, page, isLoggedIn, alive,
                 killTimer>>

\* postTweetWithTimeout 55-57: the timer rejects the race
DeadlineFire(c) ==
  /\ calls[c].state = "pending"
  /\ calls[c].deadline = 0
  /\ calls' = [calls EXCEPT ![c].state = "timeout"]
  /\ UNCHANGED <<qvars, lvars, vvars, uvars, disk, twitterEnv, browser, page, isLoggedIn, alive,
                 runs, killTimer>>

\* initializeBrowser 172-175: if (this.browser) return
BrowserPresent == browser # 0

\* postTweetWithRetry 66-70, initializeBrowser 170-178, ensureLoggedIn 244-251
LogPostingDone(c) ==
  /\ runs[c].pc = "logStart"
  /\ runs' = [runs EXCEPT ![c] =
       IF BrowserPresent
       THEN [Enter(Enter(Plain(@), c, "initializeBrowser"), c, "ensureLoggedIn") EXCEPT
               !.reused = TRUE]
       ELSE [Enter(Plain(@), c, "initializeBrowser") EXCEPT !.pc = "launch"]]
  /\ UNCHANGED <<qvars, lvars, vvars, uvars, disk, twitterEnv, browser, page, isLoggedIn, alive,
                 calls, killTimer>>

\* initializeBrowser 178-200: this.browser = await puppeteer.launch(...)
LaunchDone(c) ==
  /\ runs[c].pc = "launch"
  /\ ~runs[c].hung
  /\ browser' = FreshBrowser
  /\ alive' = alive \cup {FreshBrowser}
  /\ runs' = [runs EXCEPT ![c] = [Plain(@) EXCEPT !.pc = "newPage", !.mine = FreshBrowser]]
  /\ UNCHANGED <<qvars, lvars, vvars, uvars, disk, twitterEnv, page, isLoggedIn, calls, killTimer>>

\* initializeBrowser 202: this.page = await this.browser.newPage()
NewPageDone(c) ==
  /\ runs[c].pc = "newPage"
  /\ ~runs[c].hung
  /\ page' = runs[c].mine
  /\ runs' = [runs EXCEPT ![c] = [Plain(@) EXCEPT !.pc = "loadCookies", !.mine = 0]]
  /\ UNCHANGED <<qvars, lvars, vvars, uvars, disk, twitterEnv, browser, isLoggedIn, alive,
                 calls, killTimer>>

\* initializeBrowser 204-211, ensureLoggedIn 244-251
LoadCookiesDone(c) ==
  /\ runs[c].pc = "loadCookies"
  /\ ~runs[c].hung
  /\ runs' = [runs EXCEPT ![c] = Enter(Plain(@), c, "ensureLoggedIn")]
  /\ UNCHANGED <<qvars, lvars, vvars, uvars, disk, twitterEnv, browser, page, isLoggedIn, alive,
                 calls, killTimer>>

\* (variant: the cookies are written also when the loaded session is accepted)
EnsureLoggedInDone_saves(c) ==
  /\ runs[c].pc = "ensureLoggedIn"
  /\ ~runs[c].hung
  /\ isLoggedIn' = TRUE
  /\ disk' = [disk EXCEPT !.session = page]
  /\ runs' = [runs EXCEPT ![c] =
       [Enter(Plain(@), c, NextPhase("ensureLoggedIn")) EXCEPT
          !.login = "accepted", !.saved = TRUE]]
  /\ UNCHANGED <<qvars, lvars, vvars, uvars, twitterEnv, browser, page, alive,
                 calls, killTimer>>

\* ensureLoggedIn 248-264: the home page was reached with the loaded cookies
EnsureLoggedInDone(c) ==
  /\ runs[c].pc = "ensureLoggedIn"
  /\ ~runs[c].hung
  /\ isLoggedIn' = TRUE
  /\ runs' = [runs EXCEPT ![c] =
       [Enter(Plain(@), c, NextPhase("ensureLoggedIn")) EXCEPT !.login = "accepted"]]
  /\ UNCHANGED <<qvars, lvars, vvars, uvars, disk, twitterEnv, browser, page, alive,
                 calls, killTimer>>

\* ensureLoggedIn 267, performLogin 284-327, saveCookies 233-242: the login flow
\* landed on /home; the cookies of the page are written to the file (written) or
\* the write failed and saveCookies caught the error; this.isLoggedIn = true
PerformLoginDone(c, written) ==
  /\ runs[c].pc = "ensureLoggedIn"
  /\ ~runs[c].hung
  /\ isLoggedIn' = TRUE
  /\ disk' = IF written THEN [disk EXCEPT !.session = page] ELSE disk
  /\ runs' = [runs EXCEPT ![c] =
       [Enter(Plain(@), c, NextPhase("ensureLoggedIn")) EXCEPT
          !.login = "interactive", !.saved = written]]
  /\ UNCHANGED <<qvars, lvars, vvars, uvars, twitterEnv, browser, page, alive,
                 calls, killTimer>>

\* postTweetWithRetry 73-83, publishTweet 710: the phase returns
PhaseDone(c) ==
  /\ runs[c].pc \in {"navigateToCompose", "uploadImages", "addCaption", "publishTweet"}
  /\ ~runs[c].hung
  /\ runs' = [runs EXCEPT ![c] = Enter(Plain(@), c, NextPhase(runs[c].pc))]
  /\ UNCHANGED <<qvars, lvars, vvars, uvars, disk, twitterEnv, browser, page, isLoggedIn, alive,
                 calls, killTimer>>

\* publishTweet 710, postTweetWithRetry 83-88: the tweet URL is returned and logged
VerifyDone(c) ==
  /\ runs[c].pc = "verifyTweetSuccess"
  /\ ~runs[c].hung
  /\ runs' = [runs EXCEPT ![c] = [Plain(@) EXCEPT !.pc = NextPhase("verifyTweetSuccess"),
                                                  !.succ = @ + 1,
                                                  !.posted = 0,
                                                  !.lateEvent = Late(c)]]
  /\ UNCHANGED <<qvars, lvars, vvars, uvars, disk, twitterEnv, browser, page, isLoggedIn, alive,
                 calls, killTimer>>

\* postTweetWithRetry 87-91: await this.deleteImageFiles(imagePaths)
LogPostedDone(c) ==
  /\ runs[c].pc = "logSuccess"
  /\ runs' = [runs EXCEPT ![c] = [Plain(@) EXCEPT !.pc = "deleteImageFiles",
                                                  !.trace = <<>>,
                                                  !.lateEvent = Late(c)]]
  /\ UNCHANGED <<qvars, lvars, vvars, uvars, disk, twitterEnv, browser, page, isLoggedIn, alive,
                 calls, killTimer>>

\* (variant: a file that could not be deleted fails the try)
AfterDeletePc_strict(failed) == IF failed = {} THEN "returned" ELSE "logFail"

\* deleteImageFiles 133-168, postTweetWithRetry 91-93: the errors of fs.unlink are
\* caught per file, deleteImageFiles returns and the try returns tweetUrl
AfterDeletePc(failed) == "returned"

\* postTweetWithRetry 91-93, deleteImageFiles 133-168: every file that exists is
\* unlinked; failed: the files whose unlink threw
DeleteImageFilesDone(c, failed) ==
  /\ runs[c].pc = "deleteImageFiles"
  /\ failed \subseteq disk.files
  /\ disk' = [disk EXCEPT !.files = failed]
  /\ runs' = [runs EXCEPT ![c] = [Plain(@) EXCEPT !.pc = AfterDeletePc(failed)]]
  /\ calls' = IF Late(c) \/ AfterDeletePc(failed) # "returned" THEN calls
              ELSE [calls EXCEPT ![c] = [NoCall EXCEPT !.state = "resolved"]]
  /\ UNCHANGED <<qvars, lvars, vvars, uvars, twitterEnv, browser, page, isLoggedIn, alive,
                 killTimer>>

\* attemptPostButtonClick 871-879, publishTweet 698-710: the platform publishes the
\* post that the click of the running try submitted, while verifyTweetSuccess
\* looks for its signals
PlatformPublishes(c) ==
  /\ runs[c].pc = "verifyTweetSuccess"
  /\ runs[c].posted = 0
  /\ runs' = [runs EXCEPT ![c].posted = runs[c].attempt + 1]
  /\ UNCHANGED <<qvars, lvars, vvars, uvars, disk, twitterEnv, browser, page, isLoggedIn, alive,
                 calls, killTimer>>

\* postTweetWithRetry 95-100: a phase throws, the catch block logs the failure
PhaseThrow(c) ==
  /\ runs[c].pc \in PhasePcs
  /\ ~runs[c].hung
  /\ runs' = [runs EXCEPT ![c] = [Plain(@) EXCEPT !.pc = "logFail",
                                                  !.mine = 0,
                                                  !.lastError = runs[c].attempt + 1,
                                                  !.fails = @ + 1,
                                                  !.gov = <<IF page # 0 THEN "page"
                                                            ELSE "noPage">>,
                                                  !.lateEvent = Late(c)]]
  /\ UNCHANGED <<qvars, lvars, vvars, uvars, disk, twitterEnv, browser, page, isLoggedIn, alive,
                 calls, killTimer>>

\* the promise a phase awaits never settles
PhaseHang(c) ==
  /\ runs[c].pc \in PhasePcs
  /\ ~runs[c].hung
  /\ runs' = [runs EXCEPT ![c].hung = TRUE]
  /\ UNCHANGED <<qvars, lvars, vvars, uvars, disk, twitterEnv, browser, page, isLoggedIn, alive,
                 calls, killTimer>>

\* captureErrorScreenshot 1174-1183: the promise of page.screenshot never settles
ScreenshotHang(c) ==
  /\ runs[c].pc = "screenshot"
  /\ page # 0
  /\ ~runs[c].hung
  /\ runs' = [runs EXCEPT ![c].hung = TRUE]
  /\ UNCHANGED <<qvars, lvars, vvars, uvars, disk, twitterEnv, browser, page, isLoggedIn, alive,
                 calls, killTimer>>

\* postTweetWithRetry 99-103: await this.captureErrorScreenshot(attempt)
LogPostFailedDone(c) ==
  /\ runs[c].pc = "logFail"
  /\ runs' = [runs EXCEPT ![c] = [Plain(@) EXCEPT !.pc = "screenshot", !.trace = <<>>]]
  /\ UNCHANGED <<qvars, lvars, vvars, uvars, disk, twitterEnv, browser, page, isLoggedIn, alive,
                 calls, killTimer>>

MayRetryTweet_offByOne(attempt) == attempt <= twitterMaxRetries
\* postTweetWithRetry 109: if (attempt < this.maxRetries)
MayRetryTweet(attempt) == attempt < twitterMaxRetries

\* postTweetWithRetry 109-123: the await that follows closeBrowser
AfterClosePc(r) == IF MayRetryTweet(r.attempt) THEN "logRetry" ELSE "logGiveUp"

ProcessKill_noop(b) == alive \ {}
\* closeBrowser 1139-1141, 1155-1157: this.browser.process().kill('SIGKILL')
ProcessKill(b) == alive \ {b}

\* closeBrowser 1161-1166: the finally block
ResetSession ==
  /\ browser' = 0
  /\ page' = 0
  /\ isLoggedIn' = FALSE

\* captureErrorScreenshot 1171: a screenshot is taken if (this.page)
Shot(r) == [r EXCEPT !.gov = Append(@, IF page # 0 THEN "screenshot" ELSE "skipped")]

\* closeBrowser has returned
Closed(r) == [r EXCEPT !.gov = Append(@, "closeBrowser")]

closeBrowserStart_skipped(c) ==
  /\ runs' = [runs EXCEPT ![c] = [Plain(@) EXCEPT !.pc = AfterClosePc(runs[c])]]
  /\ UNCHANGED <<browser, page, isLoggedIn, killTimer>>
\* postTweetWithRetry 106, closeBrowser 1129-1149: with a browser the race of
\* browser.close() against the 5 s timer is awaited, without one the finally block runs
closeBrowserStart(c) ==
  IF browser # 0
  THEN /\ runs' = [runs EXCEPT ![c] = [Shot(Plain(@)) EXCEPT !.pc = "closing",
                                                             !.target = browser,
                                                             !.closes = @ + 1]]
       /\ killTimer' = [killTimer EXCEPT ![c] = closeTimeoutMs]
       /\ UNCHANGED <<browser, page, isLoggedIn>>
  ELSE /\ runs' = [runs EXCEPT ![c] = [Closed(Shot(Plain(@))) EXCEPT
                                         !.pc = AfterClosePc(runs[c]),
                                         !.target = 0,
                                         !.closes = @ + 1]]
       /\ ResetSession
       /\ UNCHANGED killTimer

\* postTweetWithRetry 103-106: captureErrorScreenshot returned
ScreenshotDone(c) ==
  /\ runs[c].pc = "screenshot"
  /\ ~runs[c].hung
  /\ closeBrowserStart(c)
  /\ UNCHANGED <<qvars, lvars, vvars, uvars, disk, twitterEnv, alive, calls>>

\* closeBrowser 1133-1166: browser.close() settled before the timer.  Resolved
\* (ok): the browser has exited; rejected: the catch block kills the process of
\* this.browser.  Then the finally block runs.
CloseSettled(c, ok) ==
  /\ runs[c].pc = "closing"
  /\ alive' = IF ok THEN alive \ {runs[c].target}
              ELSE IF browser # 0 THEN ProcessKill(browser) ELSE alive
  /\ ResetSession
  /\ runs' = [runs EXCEPT ![c] = [Closed(Plain(@)) EXCEPT !.pc = AfterClosePc(runs[c])]]
  /\ UNCHANGED <<qvars, lvars, vvars, uvars, disk, twitterEnv, calls, killTimer>>

\* closeBrowser 1136-1147: the 5 s timer kills the process of this.browser and
\* resolves the race; a closeBrowser still waiting for the race runs its finally block
KillTimerFire(c) ==
  /\ killTimer[c] = 0
  /\ killTimer' = [killTimer EXCEPT ![c] = -1]
  /\ alive' = IF browser # 0 THEN ProcessKill(browser) ELSE alive
  /\ IF runs[c].pc = "closing"
     THEN /\ ResetSession
          /\ runs' = [runs EXCEPT ![c] = [Closed(Plain(@)) EXCEPT
                                            !.pc = AfterClosePc(runs[c])]]
     ELSE UNCHANGED <<browser, page, isLoggedIn, runs>>
  /\ UNCHANGED <<qvars, lvars, vvars, uvars, disk, twitterEnv, calls>>

\* (variant: the factor is the 0-based attempt)
RetryTweetDelayMs_zeroBased(attempt) == twitterRetryDelay * attempt

\* postTweetWithRetry 110: const delay = this.retryDelay * (attempt + 1)
RetryTweetDelayMs(attempt) == twitterRetryDelay * (attempt + 1)


\* postTweetWithRetry 113-117: await this.delay(delay)
LogRetryingDone(c) ==
  /\ runs[c].pc = "logRetry"
  /\ runs' = [runs EXCEPT ![c] = [Plain(@) EXCEPT !.pc = "backoff",
                                                  !.target = 0,
                                                  !.waited = 0,
                                                  !.timer = RetryTweetDelayMs(runs[c].attempt)]]
  /\ UNCHANGED <<qvars, lvars, vvars, uvars, disk, twitterEnv, browser, page, isLoggedIn, alive,
                 calls, killTimer>>

\* postTweetWithRetry 117-118 and 61-66: the delay is over, the next attempt runs to
\* its first await; a timer armed earlier with the same expiry has fired before
BackoffDone(c) ==
  /\ runs[c].pc = "backoff"
  /\ runs[c].timer = 0
  /\ killTimer[c] = -1
  /\ runs' = [runs EXCEPT ![c] = [Plain(@) EXCEPT !.pc = "logStart",
                                                  !.attempt = @ + 1,
                                                  !.tries = @ + 1,
                                                  !.gov = <<>>,
                                                  !.waited = 0,
                                                  !.latePhase = Late(c)]]
  /\ UNCHANGED <<qvars, lvars, vvars, uvars, disk, twitterEnv, browser, page, isLoggedIn, alive,
                 calls, killTimer>>

\* postTweetWithRetry 121-125: throw error
LogGaveUpDone(c) ==
  /\ runs[c].pc = "logGiveUp"
  /\ runs' = [runs EXCEPT ![c] = [Plain(@) EXCEPT !.pc = "thrown", !.target = 0,
                                                  !.gov = <<>>, !.posted = 0]]
  /\ calls' = IF Late(c) THEN calls
              ELSE [calls EXCEPT ![c] = [NoCall EXCEPT !.state = "rejected",
                                                       !.error = runs[c].lastError]]
  /\ UNCHANGED <<qvars, lvars, vvars, uvars, disk, twitterEnv, browser, page, isLoggedIn, alive,
                 killTimer>>

\* remaining ms of the timers that are armed and can still have an effect
ArmedTimers ==
  {calls[c].deadline : c \in {d \in Calls : calls[d].state = "pending"}}
    \cup {runs[c].timer : c \in {d \in Calls : runs[d].pc = "backoff"}}
    \cup {killTimer[c] : c \in {d \in Calls : killTimer[d] >= 0}}

\* the clock advances to the next expiry of a timer
PosterTick ==
  /\ ArmedTimers # {}
  /\ 0 \notin ArmedTimers
  /\ LET d == CHOOSE x \in ArmedTimers : \A y \in ArmedTimers : x <= y
     IN /\ calls' = [c \in Calls |->
                       IF calls[c].state = "pending"
                       THEN [calls[c] EXCEPT !.deadline = @ - d, !.age = @ + d]
                       ELSE calls[c]]
        /\ runs' = [c \in Calls |->
                      IF runs[c].pc = "backoff"
                      THEN [runs[c] EXCEPT !.timer = @ - d, !.waited = @ + d]
                      ELSE runs[c]]
        /\ killTimer' = [c \in Calls |-> IF killTimer[c] >= 0 THEN killTimer[c] - d ELSE -1]
  /\ UNCHANGED <<qvars, lvars, vvars, uvars, disk, twitterEnv, browser, page, isLoggedIn, alive>>

PosterStep ==
  \E c \in Calls :
    \/ postTweet(c)
    \/ DeadlineFire(c)
    \/ LogPostingDone(c)
    \/ LaunchDone(c)
    \/ NewPageDone(c)
    \/ LoadCookiesDone(c)
    \/ EnsureLoggedInDone(c)
    \/ \E written \in BOOLEAN : PerformLoginDone(c, written)
    \/ PhaseDone(c)
    \/ PlatformPublishes(c)
    \/ VerifyDone(c)
    \/ LogPostedDone(c)
    \/ \E failed \in SUBSET Files : DeleteImageFilesDone(c, failed)
    \/ PhaseThrow(c)
    \/ PhaseHang(c)
    \/ LogPostFailedDone(c)
    \/ ScreenshotHang(c)
    \/ ScreenshotDone(c)
    \/ \E ok \in BOOLEAN : CloseSettled(c, ok)
    \/ KillTimerFire(c)
    \/ LogRetryingDone(c)
    \/ BackoffDone(c)
    \/ LogGaveUpDone(c)

PosterNext ==
  \/ PosterStep
  \/ PosterTick

(* ------------- TwitterPoster.publishTweet, verifyTweetSuccess ---------- *)
\* what the code can observe of the site
Urls == {"compose", "status", "other"}
Notices == {"none", "post", "tweet"}
Links == {"none", "plain", "view"}
Buttons == {"enabled", "disabled", "absent"}

Pages ==
  [ url : Urls,          \* compose: contains /compose/tweet; status: contains /status/;
                         \* other: contains neither
    textarea : BOOLEAN,  \* [data-testid="tweetTextarea_0"] exists
    notice : Notices,    \* post: "Your post was sent" / "Post was sent"; tweet: "Tweet sent"
    links : Links,       \* a[href*="/status/"] in the DOM; view: one with the text "view"
    button : Buttons ]   \* the element findPostButton looks for

\* the pages on which addCaption has returned: the compose surface is open
ComposePages ==
  {p \in Pages : p.textarea /\ p.url \in {"compose", "other"} /\ p.notice = "none"
                 /\ p.links # "view"}

maxPublishAttempts == 5
clickMethodCount == 5
maxWaitTime == 20000
checkInterval == 1000

NoPublish ==
  [ pc |-> "none",
    publishAttempt |-> 0,     \* the loop variable of publishTweet
    methodIndex |-> 0,        \* the loop variable of attemptPostButtonClick
    publishSuccess |-> FALSE,
    waitTime |-> 0,           \* the local of verifyTweetSuccess
    result |-> "none",        \* success, or the error publishTweet throws
    \* history (not program state)
    scenario |-> "none",      \* the signals the site showed after the first executed click
    steady |-> FALSE,         \* the site has not changed by itself since that click
    observed |-> FALSE,       \* a round of verifyTweetSuccess has seen a success signal
    rounds |-> 0,             \* the rounds of verifyTweetSuccess that have started
    erred |-> FALSE,          \* an error was thrown inside a round of verifyTweetSuccess
    submits |-> 0,            \* the rounds of publishTweet that have started
    skipped |-> FALSE ]       \* a click method of the current round threw

PublishIdle ==
  /\ pg = [url |-> "other", textarea |-> FALSE, notice |-> "none", links |-> "none",
           button |-> "absent"]
  /\ profileLinks = FALSE
  /\ pub = NoPublish
  /\ changes = 0

\* the four success signals
SignalUrl(p) == p.url = "status"
SignalComposeGone(p) == ~p.textarea /\ p.url # "compose"
SignalNotice(p) == p.notice = "post"
SignalButton(p) == p.button # "enabled" /\ ~p.textarea

\* the signal that holds alone on page p, if one does
ScenarioOf(p) ==
  IF p.links = "view" \/ p.notice = "tweet" THEN "other"
  ELSE IF SignalUrl(p) /\ ~SignalComposeGone(p) /\ ~SignalNotice(p) /\ ~SignalButton(p)
       THEN "url"
  ELSE IF ~SignalUrl(p) /\ SignalComposeGone(p) /\ ~SignalNotice(p) /\ ~SignalButton(p)
       THEN "composeGone"
  ELSE IF ~SignalUrl(p) /\ ~SignalComposeGone(p) /\ SignalNotice(p) /\ ~SignalButton(p)
       THEN "notice"
  ELSE IF ~SignalUrl(p) /\ ~SignalComposeGone(p) /\ ~SignalNotice(p) /\ SignalButton(p)
       THEN "button"
  ELSE "other"

\* isComposeModalOpen 718-730
isComposeModalOpen(p) == p.textarea \/ p.url = "compose"

\* publishTweet 642-647: the call, up to the first wait
publishTweetStart ==
  /\ pub.pc = "none"
  /\ pub' = [NoPublish EXCEPT !.pc = "round"]
  /\ UNCHANGED <<qvars, lvars, pvars, uvars, pg, profileLinks, changes>>

\* publishTweet 711-714: the catch block rethrows
Throws(r, e) == [r EXCEPT !.pc = "done", !.result = e]

\* publishTweet 657-660, 686-688, 698: the loop is left; its variables and those of
\* attemptPostButtonClick go out of scope
LoopLeft(r, confirmed) ==
  [r EXCEPT !.pc = "final", !.publishSuccess = confirmed,
            !.publishAttempt = 0, !.methodIndex = 0]

\* publishTweet 652-681: the head of a submit round, up to the first click or the
\* activation of a disabled button
RoundStart ==
  /\ pub.pc = "round"
  /\ LET r == [pub EXCEPT !.submits = @ + 1, !.skipped = FALSE]
     IN  pub' =
       IF ~isComposeModalOpen(pg) THEN LoopLeft(r, FALSE)
       ELSE IF pg.button = "absent"
            THEN IF r.publishAttempt = maxPublishAttempts - 1
                 THEN Throws(r, "noPostButton")
                 ELSE [r EXCEPT !.publishAttempt = @ + 1]
       ELSE IF pg.button = "disabled" THEN [r EXCEPT !.pc = "activate"]
       ELSE [r EXCEPT !.pc = "click", !.methodIndex = 0]
  /\ UNCHANGED <<qvars, lvars, pvars, uvars, pg, profileLinks, changes>>

\* ensurePostButtonEnabled 762-826 and publishTweet 674-681: the activation methods
\* have run; enabled: the button lost its disabled state
ActivateDone(enabled) ==
  /\ pub.pc = "activate"
  /\ pg' = IF enabled THEN [pg EXCEPT !.button = "enabled"] ELSE pg
  /\ pub' = IF ~enabled /\ pub.publishAttempt < maxPublishAttempts - 1
            THEN [pub EXCEPT !.pc = "round", !.publishAttempt = @ + 1]
            ELSE [pub EXCEPT !.pc = "click", !.methodIndex = 0]
  /\ UNCHANGED <<qvars, lvars, pvars, uvars, profileLinks, changes>>

\* (variant: one more round than maxPublishAttempts)
AfterMethod_sixRounds(r) ==
  IF r.methodIndex < clickMethodCount - 1
  THEN [r EXCEPT !.pc = "click", !.methodIndex = @ + 1]
  ELSE IF r.publishAttempt < maxPublishAttempts
       THEN [r EXCEPT !.pc = "round", !.publishAttempt = @ + 1, !.methodIndex = 0]
       ELSE LoopLeft(r, FALSE)

\* attemptPostButtonClick 871-898 and publishTweet 684-695: no method is left
AfterMethod(r) ==
  IF r.methodIndex < clickMethodCount - 1
  THEN [r EXCEPT !.pc = "click", !.methodIndex = @ + 1]
  ELSE IF r.publishAttempt < maxPublishAttempts - 1
       THEN [r EXCEPT !.pc = "round", !.publishAttempt = @ + 1, !.methodIndex = 0]
       ELSE LoopLeft(r, FALSE)

\* attemptPostButtonClick 873-879: the click method ran and the site answered with
\* page p
ClickExecuted(p) ==
  /\ pub.pc = "click"
  /\ pg' = p
  /\ pub' = [pub EXCEPT !.pc = "validate",
                        !.scenario = IF @ = "none" THEN ScenarioOf(p) ELSE @,
                        !.steady = IF pub.scenario = "none" THEN TRUE ELSE @ /\ p = pg]
  /\ UNCHANGED <<qvars, lvars, pvars, uvars, profileLinks, changes>>

\* attemptPostButtonClick 892-895: the click method threw
ClickThrew ==
  /\ pub.pc = "click"
  /\ pub' = AfterMethod([pub EXCEPT !.skipped = TRUE])
  /\ UNCHANGED <<qvars, lvars, pvars, uvars, pg, profileLinks, changes>>

\* validatePostButtonClick 903-930: checks 1 to 3 and the first half of check 4
ClickConfirmed(p) ==
  \/ p.url # "compose"
  \/ ~p.textarea
  \/ p.notice # "none"
  \/ p.button = "absent"

\* (variant: a confirmed click does not end the round)
Validate_keepsClicking ==
  /\ pub.pc = "validate"
  /\ pub' = IF ~ClickConfirmed(pg) /\ pg.button = "disabled"
            THEN [pub EXCEPT !.pc = "validateWait"]
            ELSE AfterMethod(pub)
  /\ UNCHANGED <<qvars, lvars, pvars, uvars, pg, profileLinks, changes>>

\* attemptPostButtonClick 879-890, validatePostButtonClick 903-944
Validate ==
  /\ pub.pc = "validate"
  /\ pub' = IF ClickConfirmed(pg) THEN LoopLeft(pub, TRUE)
            ELSE IF pg.button = "disabled" THEN [pub EXCEPT !.pc = "validateWait"]
            ELSE AfterMethod(pub)
  /\ UNCHANGED <<qvars, lvars, pvars, uvars, pg, profileLinks, changes>>

\* validatePostButtonClick 936-944: after the 1 s wait of check 4
ValidateWaitDone ==
  /\ pub.pc = "validateWait"
  /\ pub' = IF ~pg.textarea THEN LoopLeft(pub, TRUE)
            ELSE AfterMethod(pub)
  /\ UNCHANGED <<qvars, lvars, pvars, uvars, pg, profileLinks, changes>>

\* publishTweet 698-710: the final check after the rounds
FinalCheck ==
  /\ pub.pc = "final"
  /\ pub' = IF ~pub.publishSuccess /\ isComposeModalOpen(pg)
            THEN Throws(pub, "modalStillOpen")
            ELSE [pub EXCEPT !.pc = "verify", !.waitTime = 0, !.submits = 0,
                             !.skipped = FALSE]
  /\ UNCHANGED <<qvars, lvars, pvars, uvars, pg, profileLinks, changes>>

\* (variant: the window is left one round later)
RoundOver_lenient(r) ==
  IF r.waitTime + checkInterval <= maxWaitTime
  THEN [r EXCEPT !.pc = "verify", !.waitTime = @ + checkInterval]
  ELSE Throws([r EXCEPT !.waitTime = @ + checkInterval], "verificationFailed")

\* verifyTweetSuccess 1038, 1112-1126: a round ended without a result
RoundOver(r) ==
  IF r.waitTime + checkInterval < maxWaitTime
  THEN [r EXCEPT !.pc = "verify", !.waitTime = @ + checkInterval]
  ELSE Throws([r EXCEPT !.waitTime = @ + checkInterval], "verificationFailed")

\* verifyTweetSuccess 1040-1115: one polling round
VerifyRound ==
  /\ pub.pc = "verify"
  /\ LET r == [pub EXCEPT !.rounds = @ + 1]
     IN  pub' =
       IF pg.url = "status" \/ pg.links = "view"
       THEN [r EXCEPT !.pc = "done", !.result = "success", !.observed = TRUE]
       ELSE IF pg.notice = "post"
            THEN IF pg.links # "none"
                 THEN [r EXCEPT !.pc = "done", !.result = "success", !.observed = TRUE]
                 ELSE [r EXCEPT !.pc = "extract", !.observed = TRUE]
       ELSE IF ~pg.textarea /\ pg.url # "compose"
            THEN [r EXCEPT !.pc = "extract", !.observed = TRUE]
       ELSE RoundOver(r)
  /\ UNCHANGED <<qvars, lvars, pvars, uvars, pg, profileLinks, changes>>

\* verifyTweetSuccess 1117-1121: a page call of the round threw
VerifyRoundError ==
  /\ pub.pc = "verify"
  /\ pub' = RoundOver([pub EXCEPT !.rounds = @ + 1, !.erred = TRUE])
  /\ UNCHANGED <<qvars, lvars, pvars, uvars, pg, profileLinks, changes>>

\* extractTweetUrlFromPage 954-984: the current URL and the links of the page
ExtractFromPage ==
  /\ pub.pc = "extract"
  /\ pub' = IF pg.url = "status" \/ pg.links # "none"
            THEN [pub EXCEPT !.pc = "done", !.result = "success"]
            ELSE [pub EXCEPT !.pc = "gotoProfile"]
  /\ UNCHANGED <<qvars, lvars, pvars, uvars, pg, profileLinks, changes>>

\* the profile page of the account
ProfilePage ==
  [ url |-> "other", textarea |-> FALSE, notice |-> "none",
    links |-> IF profileLinks THEN "plain" ELSE "none", button |-> "absent" ]

\* extractTweetUrlFromPage 986-1027, verifyTweetSuccess 1117-1121: the profile was
\* loaded (ok) or page.goto threw; without a link the error is thrown into the
\* round that asked for the URL
GotoProfileDone(ok) ==
  /\ pub.pc = "gotoProfile"
  /\ pg' = IF ok THEN ProfilePage ELSE pg
  /\ pub' = IF ok /\ profileLinks
            THEN [pub EXCEPT !.pc = "done", !.result = "success"]
            ELSE RoundOver([pub EXCEPT !.erred = TRUE])
  /\ UNCHANGED <<qvars, lvars, pvars, uvars, profileLinks, changes>>

\* the number of observations in which the pages p and q differ
Distance(p, q) ==
  (IF p.url # q.url THEN 1 ELSE 0) + (IF p.textarea # q.textarea THEN 1 ELSE 0)
    + (IF p.notice # q.notice THEN 1 ELSE 0) + (IF p.links # q.links THEN 1 ELSE 0)
    + (IF p.button # q.button THEN 1 ELSE 0)

\* the site changes one observation by itself while the code waits
SiteChange(p) ==
  /\ pub.pc \notin {"none", "done"}
  /\ Distance(p, pg) = 1
  /\ changes < MaxChanges
  /\ pg' = p
  /\ changes' = changes + 1
  /\ pub' = [pub EXCEPT !.steady = FALSE]
  /\ UNCHANGED <<qvars, lvars, pvars, uvars, profileLinks>>

PublishNext ==
  \/ publishTweetStart
  \/ RoundStart
  \/ \E enabled \in BOOLEAN : ActivateDone(enabled)
  \/ \E p \in Pages : ClickExecuted(p)
  \/ ClickThrew
  \/ Validate
  \/ ValidateWaitDone
  \/ FinalCheck
  \/ VerifyRound
  \/ VerifyRoundError
  \/ ExtractFromPage
  \/ \E ok \in BOOLEAN : GotoProfileDone(ok)
  \/ \E p \in Pages : SiteChange(p)

(* -------------------- TwitterPoster.uploadImages ----------------------- *)
\* uploadImages 454: const maxAttempts = 3
maxAttempts == 3

NoUpload ==
  [ pc |-> "none",
    expected |-> 0,        \* imagePaths.length
    fileInput |-> FALSE,   \* the local fileInput is not null
    attempts |-> 0,        \* the loop variable of the polling loop
    found |-> 0,           \* uploadedImages.length
    result |-> "none",     \* completed: uploadImages returned; failed: it threw
    error |-> "none",      \* what made uploadImages throw
    \* history (not program state)
    polls |-> 0,           \* the polling rounds that have run
    viaButton |-> FALSE,   \* a media button was looked for
    debug |-> "none" ]     \* the outcome of the screenshot of the undercount

UploadIdle == up = NoUpload

\* the numbers of elements a media selector can match
Counts == 0..(MaxFiles + 1)

\* uploadImages 380-402: the call, up to the end of the direct lookup of the file
\* input; n: imagePaths.length
uploadImagesStart(n) ==
  /\ up.pc = "none"
  /\ up' = [NoUpload EXCEPT !.pc = "lookup", !.expected = n]
  /\ UNCHANGED <<qvars, lvars, pvars, vvars, cap, lg>>

\* uploadImages 532-535: the catch block rethrows
UploadThrows(r, e) == [r EXCEPT !.pc = "done", !.result = "failed", !.error = e]

\* uploadImages 392-405, 444: one of the three selectors matched (found), or none;
\* a selector whose page.$ throws is skipped
LookupDone(found) ==
  /\ up.pc = "lookup"
  /\ up' = IF found THEN [up EXCEPT !.pc = "uploadFile", !.fileInput = TRUE]
           ELSE [up EXCEPT !.pc = "mediaButton", !.viaButton = TRUE]
  /\ UNCHANGED <<qvars, lvars, pvars, vvars, cap, lg>>

\* uploadImages 405-439: a media button was clicked and the lookup repeated; found:
\* the file input has appeared.  Without one the function throws.
MediaButtonDone(found) ==
  /\ up.pc = "mediaButton"
  /\ up' = IF found THEN [up EXCEPT !.pc = "uploadFile", !.fileInput = TRUE]
           ELSE UploadThrows(up, "noFileInput")
  /\ UNCHANGED <<qvars, lvars, pvars, vvars, cap, lg>>

\* uploadImages 444-467: fileInput.uploadFile(...imagePaths) resolved (ok), followed
\* by the 5 s wait, or rejected
UploadFileDone(ok) ==
  /\ up.pc = "uploadFile"
  /\ up' = IF ok THEN [up EXCEPT !.pc = "poll", !.attempts = 0, !.found = 0]
           ELSE UploadThrows(up, "uploadFile")
  /\ UNCHANGED <<qvars, lvars, pvars, vvars, cap, lg>>

\* (variant: one more polling round)
PollAgain_oneMore(attempts) == attempts <= maxAttempts

\* uploadImages 467: while (attempts < maxAttempts)
PollAgain(attempts) == attempts < maxAttempts

\* uploadImages 506-523: after the loop, the undercount is reported with a
\* screenshot; otherwise the 3 s wait and the error probe follow
LoopExit(r) ==
  IF r.found # r.expected THEN [r EXCEPT !.pc = "debugShot"]
  ELSE [r EXCEPT !.pc = "errorProbe"]

\* uploadImages 467-504: one polling round; count: the number of elements of the
\* first media selector that matches any, 0 if none does
PollRound(count) ==
  /\ up.pc = "poll"
  /\ LET r == [up EXCEPT !.found = count, !.polls = @ + 1]
     IN  up' = IF count = up.expected THEN LoopExit(r)
               ELSE IF PollAgain(up.attempts + 1)
                    THEN [r EXCEPT !.attempts = @ + 1]
               ELSE LoopExit([r EXCEPT !.attempts = @ + 1])
  /\ UNCHANGED <<qvars, lvars, pvars, vvars, cap, lg>>

\* uploadImages 502, 532-535: the wait between two rounds rejects
PollWaitRejects ==
  /\ up.pc = "poll"
  /\ up.polls > 0
  /\ up' = UploadThrows(up, "wait")
  /\ UNCHANGED <<qvars, lvars, pvars, vvars, cap, lg>>

\* uploadImages 508-523: the screenshot raced against a 3 s timer, inside try/catch
DebugShotDone(outcome) ==
  /\ up.pc = "debugShot"
  /\ up' = [up EXCEPT !.pc = "errorProbe", !.debug = outcome]
  /\ UNCHANGED <<qvars, lvars, pvars, vvars, cap, lg>>

\* uploadImages 526-529: the probe for error indicators
ErrorProbeDone(outcome) ==
  /\ up.pc = "errorProbe"
  /\ up' = IF outcome = "none" THEN [up EXCEPT !.pc = "done", !.result = "completed"]
           ELSE IF outcome = "found" THEN [up EXCEPT !.pc = "errorShot"]
           ELSE UploadThrows(up, "probe")
  /\ UNCHANGED <<qvars, lvars, pvars, vvars, cap, lg>>

\* uploadImages 529-535: await this.page.screenshot(...) outside any inner try
ErrorShotDone(ok) ==
  /\ up.pc = "errorShot"
  /\ up' = IF ok THEN [up EXCEPT !.pc = "done", !.result = "completed"]
           ELSE UploadThrows(up, "screenshot")
  /\ UNCHANGED <<qvars, lvars, pvars, vvars, cap, lg>>

UploadNext ==
  \/ \E n \in 1..MaxFiles : uploadImagesStart(n)
  \/ \E found \in BOOLEAN : LookupDone(found)
  \/ \E found \in BOOLEAN : MediaButtonDone(found)
  \/ \E ok \in BOOLEAN : UploadFileDone(ok)
  \/ \E count \in Counts : PollRound(count)
  \/ PollWaitRejects
  \/ \E outcome \in {"saved", "failed", "timeout"} : DebugShotDone(outcome)
  \/ \E outcome \in {"none", "found", "threw"} : ErrorProbeDone(outcome)
  \/ \E ok \in BOOLEAN : ErrorShotDone(ok)

(* --------------------- TwitterPoster.addCaption ------------------------ *)
\* addCaption 597-599: caption.substring(0, 20)
prefixLen == 20

\* the characters are numbers: 1, 2, ... are the characters of a caption
\* addCaption 631: the character of keyboard.type(' ')
Space == 0
\* a character that no caption contains
Stray == prefixLen + MaxTail + 1

\* the captions passed to addCaption: the empty one, a short one, a long one
CaptionLens == {0, 3, prefixLen + MaxTail}
Captions == {[i \in 1..n |-> i] : n \in CaptionLens}

\* the text s without its i-th character
Drop(s, i) == SubSeq(s, 1, i - 1) \o SubSeq(s, i + 1, Len(s))

\* what can reach the text surface when the caption s is typed: all of it, all but
\* one character, or nothing
Typings(s) == {s, <<>>} \cup {Drop(s, i) : i \in 1..Len(s)}
AllTypings == UNION {Typings(s) : s \in Captions}

\* what the text surface shows before addCaption
Leftovers == {<<>>, <<Stray>>}

NoCaption ==
  [ pc |-> "none",
    caption |-> <<>>,      \* the parameter caption
    text |-> <<>>,         \* the text of the text surface
    selected |-> FALSE,    \* the whole text is selected
    result |-> "none",     \* completed: addCaption returned; failed: it threw
    error |-> "none",
    \* history (not program state)
    outcome |-> "none",    \* of the readback: match, mismatch or absent
    typings |-> 0,         \* the times the caption was typed
    spaces |-> 0,          \* the times the trailing space was typed
    readbacks |-> 0,       \* the times the text was read back
    firstTyped |-> <<>>,   \* what reached the surface in the first typing
    lastTyped |-> <<>> ]   \* what reached the surface in the last typing

CaptionIdle == cap = NoCaption

\* String.prototype.substring(0, n)
Substring(s, n) == SubSeq(s, 1, Min(n, Len(s)))

\* String.prototype.includes
Includes(text, part) ==
  \E k \in 0..(Len(text) - Len(part)) : SubSeq(text, k + 1, k + Len(part)) = part

\* (variant: the whole caption is looked for)
hasContent_whole(text, caption) == Includes(text, caption)

\* addCaption 597-599: textContent and innerText hold the text of the surface,
\* value is empty on the contenteditable element
hasContent(text, caption) ==
  \/ Includes(text, Substring(caption, prefixLen))
  \/ Includes(<<>>, Substring(caption, prefixLen))

\* (variant: typed characters are appended to a selected text)
Insert_append(text, selected, typed) == text \o typed

\* the keyboard types into the surface: typed characters replace a selection
Insert(text, selected, typed) ==
  IF typed = <<>> THEN text
  ELSE IF selected THEN typed
  ELSE text \o typed

\* addCaption 538-555: the call, up to the lookup of the text area
addCaptionStart(caption, leftover) ==
  /\ cap.pc = "none"
  /\ cap' = [NoCaption EXCEPT !.pc = "find", !.caption = caption, !.text = leftover]
  /\ UNCHANGED <<qvars, lvars, pvars, vvars, up, lg>>

\* addCaption 636-639: the catch block rethrows
CaptionThrows(r, e) == [r EXCEPT !.pc = "done", !.result = "failed", !.error = e]

\* addCaption 551-581: a selector matched (found): click, Ctrl+A, Backspace; or
\* none did and the function throws
FindDone(found) ==
  /\ cap.pc = "find"
  /\ cap' = IF found THEN [cap EXCEPT !.pc = "type", !.text = <<>>, !.selected = FALSE]
            ELSE CaptionThrows(cap, "noTextArea")
  /\ UNCHANGED <<qvars, lvars, pvars, vvars, up, lg>>

\* addCaption 581-585: page.type(selector, caption, {delay: 50}) has returned
TypeDone(typed) ==
  /\ cap.pc = "type"
  /\ typed \in Typings(cap.caption)
  /\ cap' = [cap EXCEPT !.pc = "readback",
                        !.text = Insert(cap.text, cap.selected, typed),
                        !.selected = cap.selected /\ typed = <<>>,
                        !.typings = @ + 1,
                        !.firstTyped = typed,
                        !.lastTyped = typed]
  /\ UNCHANGED <<qvars, lvars, pvars, vvars, up, lg>>

\* addCaption 585-620: the readback; present: the element was found.  After a
\* mismatch the text area is focused and Ctrl+A selects its text.
ReadbackDone(present) ==
  /\ cap.pc = "readback"
  /\ cap' = IF ~present THEN [cap EXCEPT !.pc = "space", !.outcome = "absent"]
            ELSE IF hasContent(cap.text, cap.caption)
                 THEN [cap EXCEPT !.pc = "space", !.outcome = "match",
                                  !.readbacks = @ + 1]
            ELSE [cap EXCEPT !.pc = "fallback", !.outcome = "mismatch",
                             !.readbacks = @ + 1, !.selected = TRUE]
  /\ UNCHANGED <<qvars, lvars, pvars, vvars, up, lg>>

\* addCaption 621-631: the caption was typed character by character
FallbackDone(typed) ==
  /\ cap.pc = "fallback"
  /\ typed \in Typings(cap.caption)
  /\ cap' = [cap EXCEPT !.pc = "space",
                        !.text = Insert(cap.text, cap.selected, typed),
                        !.selected = cap.selected /\ typed = <<>>,
                        !.typings = @ + 1,
                        !.lastTyped = typed]
  /\ UNCHANGED <<qvars, lvars, pvars, vvars, up, lg>>

\* addCaption 631-634: keyboard.type(' '), the function returns
SpaceDone ==
  /\ cap.pc = "space"
  /\ cap' = [cap EXCEPT !.pc = "done", !.result = "completed",
                        !.text = Insert(cap.text, cap.selected, <<Space>>),
                        !.selected = FALSE,
                        !.spaces = @ + 1]
  /\ UNCHANGED <<qvars, lvars, pvars, vvars, up, lg>>

\* addCaption 581-631, 636-639: a page operation outside the lookup rejects
CaptionOpRejects ==
  /\ cap.pc \in {"type", "readback", "fallback", "space"}
  /\ cap' = CaptionThrows(cap, "page")
  /\ UNCHANGED <<qvars, lvars, pvars, vvars, up, lg>>

CaptionNext ==
  \/ \E caption \in Captions, leftover \in Leftovers : addCaptionStart(caption, leftover)
  \/ \E found \in BOOLEAN : FindDone(found)
  \/ \E typed \in AllTypings : TypeDone(typed)
  \/ \E present \in BOOLEAN : ReadbackDone(present)
  \/ \E typed \in AllTypings : FallbackDone(typed)
  \/ SpaceDone
  \/ CaptionOpRejects

(* =========================== TelegramLogger =========================== *)
\* processMessageQueue 91: the wait after every message
sendIntervalMs == 1000

\* the step of the clock
LoggerTickMs == sendIntervalMs \div 2

\* outcomes of bot.sendMessage: resolved; rejected with 'chat not found'; rejected
\* with FLOOD_WAIT or a network error; rejected with another error
SendOutcomes == {"ok", "chatNotFound", "temporary", "other"}

\* outcomes of the file checks of sendPhoto: the buffer is ready; the file is
\* missing or empty; it is larger than 10 MB; fs threw
FileOutcomes == {"ok", "skip", "tooLarge", "error"}

NoLogger ==
  [ logGroupId |-> TRUE,          \* config.telegram.logGroupId is set
    isInitialized |-> FALSE,
    isInitializing |-> FALSE,
    messageQueue |-> <<>>,        \* the messages, each the number of its log() call
    isProcessingQueue |-> FALSE,
    init |-> "none",              \* initialize: getMe while it awaits bot.getMe()
    immediates |-> 0,             \* setImmediate callbacks that have not run yet
    loop |-> "none",              \* processMessageQueue: send (awaits sendMessageToGroup)
                                  \* or wait (awaits the timer)
    message |-> 0,                \* the local message of processMessageQueue
    timer |-> 0,                  \* remaining ms of the timer of line 91
    photo |-> "none",             \* sendPhoto: files (awaits fs) or send (awaits
                                  \* bot.sendPhoto)
    logs |-> 0,                   \* log() calls so far
    photos |-> 0,                 \* sendPhoto() calls so far
    \* history (not program state)
    sinceSend |-> -1,             \* ms since the last call of bot.sendMessage or
                                  \* bot.sendPhoto, at most sendIntervalMs; -1: no call yet
    gap |-> -1 ]                  \* sinceSend when the last of these calls was made

\* the logger as constructed, never used
LoggerIdle == lg = NoLogger

\* a call of bot.sendMessage or bot.sendPhoto is made
ApiCall(r) == [r EXCEPT !.gap = r.sinceSend, !.sinceSend = 0]

\* initialize 15-28: the call, up to the await of bot.getMe()
initialize(r) ==
  IF r.isInitialized \/ r.isInitializing THEN r
  ELSE [r EXCEPT !.isInitializing = TRUE, !.init = "getMe"]

\* log 45-70: the message is queued; the logger is initialized first, or the queue
\* is left to the running initialize, or processMessageQueue is scheduled
log(r) ==
  LET q == [r EXCEPT !.logs = @ + 1, !.messageQueue = Append(@, r.logs + 1)]
  IN  IF ~q.isInitialized /\ ~q.isInitializing THEN initialize(q)
      ELSE IF q.isInitializing THEN q
      ELSE [q EXCEPT !.immediates = @ + 1]

\* processMessageQueue 85-87, sendMessageToGroup 100-115: the loop test; the head
\* is shifted and sent, or skipped without a log group; an empty queue ends the
\* loop (finally block 94-96)
LoopPass(r) ==
  IF Len(r.messageQueue) > 0
  THEN LET m == [r EXCEPT !.message = Head(r.messageQueue),
                          !.messageQueue = Tail(r.messageQueue)]
       IN  IF m.isInitialized /\ m.logGroupId
           THEN [ApiCall(m) EXCEPT !.loop = "send"]
           ELSE [m EXCEPT !.loop = "wait", !.timer = sendIntervalMs]
  ELSE [r EXCEPT !.loop = "none", !.message = 0, !.isProcessingQueue = FALSE]

\* processMessageQueue 78-85
processMessageQueue(r) ==
  IF r.isProcessingQueue \/ Len(r.messageQueue) = 0 THEN r
  ELSE LoopPass([r EXCEPT !.isProcessingQueue = TRUE])

\* sendMessageToGroup 134: this.messageQueue.unshift(messageObj)
Requeue(q, m) == <<m>> \o q

\* index.js 140: await telegramLogger.initialize()
InitializeCall ==
  /\ lg.init = "none"
  /\ ~lg.isInitialized
  /\ lg' = initialize(lg)
  /\ UNCHANGED <<qvars, lvars, pvars, vvars, up, cap>>

\* initialize 28-41: bot.getMe() settled
GetMeDone(ok) ==
  /\ lg.init = "getMe"
  /\ lg' = IF ok
           THEN [lg EXCEPT !.init = "none", !.isInitialized = TRUE,
                           !.isInitializing = FALSE, !.immediates = @ + 1]
           ELSE [lg EXCEPT !.init = "none", !.isInitializing = FALSE]
  /\ UNCHANGED <<qvars, lvars, pvars, vvars, up, cap>>

\* a caller of log(): the queue, the poster, the listener, index.js
LogCall ==
  /\ lg.logs < MaxLogs
  /\ lg' = log(lg)
  /\ UNCHANGED <<qvars, lvars, pvars, vvars, up, cap>>

\* initialize 36, log 69: a setImmediate callback runs processMessageQueue
ImmediateRun ==
  /\ lg.immediates > 0
  /\ lg' = processMessageQueue([lg EXCEPT !.immediates = @ - 1])
  /\ UNCHANGED <<qvars, lvars, pvars, vvars, up, cap>>

\* sendMessageToGroup 112-139, processMessageQueue 88-91: bot.sendMessage settled;
\* a temporary error puts the message back at the head; then the 1 s wait
SendMessageDone(outcome) ==
  /\ lg.loop = "send"
  /\ lg' = [lg EXCEPT !.loop = "wait",
                      !.timer = sendIntervalMs,
                      !.messageQueue = IF outcome = "temporary"
                                       THEN Requeue(@, lg.message) ELSE @]
  /\ UNCHANGED <<qvars, lvars, pvars, vvars, up, cap>>

\* processMessageQueue 91 and 85: the timer fired, the loop test is made again
WaitDone ==
  /\ lg.loop = "wait"
  /\ lg.timer = 0
  /\ lg' = LoopPass(lg)
  /\ UNCHANGED <<qvars, lvars, pvars, vvars, up, cap>>

\* sendPhoto 259-272: the call, up to the await of fs.pathExists
sendPhoto ==
  /\ lg.photos < MaxPhotos
  /\ lg.photo = "none"
  /\ lg' = IF lg.isInitialized /\ lg.logGroupId
           THEN [lg EXCEPT !.photos = @ + 1, !.photo = "files"]
           ELSE [lg EXCEPT !.photos = @ + 1]
  /\ UNCHANGED <<qvars, lvars, pvars, vvars, up, cap>>

\* sendPhoto 272-324 and 330-340: the checks of the file; bot.sendPhoto is called
\* with the buffer, or the photo is skipped, or a text message is logged instead
PhotoFilesDone(outcome) ==
  /\ lg.photo = "files"
  /\ lg' = IF outcome = "ok" THEN [ApiCall(lg) EXCEPT !.photo = "send"]
           ELSE IF outcome = "skip" THEN [lg EXCEPT !.photo = "none"]
           ELSE log([lg EXCEPT !.photo = "none"])
  /\ UNCHANGED <<qvars, lvars, pvars, vvars, up, cap>>

\* sendPhoto 318-341: bot.sendPhoto settled; after a rejection a text message is
\* logged instead
PhotoSendDone(ok) ==
  /\ lg.photo = "send"
  /\ lg' = IF ok THEN [lg EXCEPT !.photo = "none"]
           ELSE log([lg EXCEPT !.photo = "none"])
  /\ UNCHANGED <<qvars, lvars, pvars, vvars, up, cap>>

\* the clock advances, the timer of the loop counts down
LoggerTick ==
  /\ \/ lg.loop = "wait" /\ lg.timer > 0
     \/ lg.sinceSend >= 0 /\ lg.sinceSend < sendIntervalMs
  /\ lg' = [lg EXCEPT !.timer = Max(0, @ - LoggerTickMs),
                      !.sinceSend = IF @ >= 0 THEN Min(sendIntervalMs, @ + LoggerTickMs)
                                    ELSE @]
  /\ UNCHANGED <<qvars, lvars, pvars, vvars, up, cap>>

LoggerNext ==
  \/ InitializeCall
  \/ \E ok \in BOOLEAN : GetMeDone(ok)
  \/ LogCall
  \/ ImmediateRun
  \/ \E outcome \in SendOutcomes : SendMessageDone(outcome)
  \/ WaitDone
  \/ sendPhoto
  \/ \E outcome \in FileOutcomes : PhotoFilesDone(outcome)
  \/ \E ok \in BOOLEAN : PhotoSendDone(ok)
  \/ LoggerTick

(* ========================== TelegramListener ========================== *)
Groups == 1..MaxGroups
Tasks == 1..MaxMsgs
Arrays == 1..MaxMsgs

\* config.app.maxImagesPerPost: parseInt(process.env.MAX_IMAGES_PER_POST) || 4
maxImagesPerPost == 4

\* config.app.useQueue: config.app has no such key, the value is undefined
useQueue == FALSE

Free == [pc |-> "free", g |-> 0, arr |-> 0, i |-> 0, imgs |-> 0]

ListenerInit ==
  /\ arrived = 0
  /\ tasks = [t \in Tasks |-> Free]
  /\ arrays = [a \in Arrays |-> 0]
  /\ nextArr = 1
  /\ mediaGroups = [g \in Groups |-> 0]
  /\ timerMap = [g \in Groups |-> "absent"]
  /\ orphans = [g \in Groups |-> 0]

FreeTasks == {t \in Tasks : tasks[t].pc = "free"}
FreeTask == CHOOSE t \in FreeTasks : \A u \in FreeTasks : t <= u

\* handleNewMessage 99-104 and 109: the message is not from an allowed
\* channel, or has neither a photo nor a media_group_id
ReceiveIgnored ==
  /\ arrived < MaxMsgs
  /\ arrived' = arrived + 1
  /\ UNCHANGED <<ovars, qvars, tempCleanupEnabled, tasks, arrays, nextArr, mediaGroups,
                 timerMap, orphans>>

\* handleNewMessage 109-117: a single-image message, up to the await of
\* extractImages
ReceivePhoto ==
  /\ arrived < MaxMsgs
  /\ FreeTasks # {}
  /\ arrived' = arrived + 1
  /\ tasks' = [tasks EXCEPT ![FreeTask] = [Free EXCEPT !.pc = "extract"]]
  /\ UNCHANGED <<ovars, qvars, tempCleanupEnabled, arrays, nextArr, mediaGroups, timerMap, orphans>>

\* handleNewMessage 111-113 and handleMediaGroupMessage 134-158
ReceiveGroupMessage(g) ==
  /\ arrived < MaxMsgs
  /\ arrived' = arrived + 1
  /\ LET fresh == mediaGroups[g] = 0
         a == IF fresh THEN nextArr ELSE mediaGroups[g]
     IN /\ mediaGroups' = [mediaGroups EXCEPT ![g] = a]
        /\ nextArr' = IF fresh THEN nextArr + 1 ELSE nextArr
        /\ arrays' = [arrays EXCEPT ![a] = @ + 1]
  /\ timerMap' = [timerMap EXCEPT ![g] = "armed"]
  /\ UNCHANGED <<ovars, qvars, tempCleanupEnabled, tasks, orphans>>

\* processAndPost 287-294: up to the await of getWatermarkedImages
processAndPostStart(t, n) ==
  /\ tasks' = [tasks EXCEPT ![t].pc = "watermark", ![t].imgs = n]
  /\ UNCHANGED <<ovars, qvars>>

\* TelegramListener.addToQueue 276-278: the call of queueManager.addToQueue
listenerAddToQueueStart(t, n) ==
  /\ tasks' = [tasks EXCEPT ![t].pc = "logQueued", ![t].imgs = n]
  /\ addToQueue(FALSE, "listener")
  /\ UNCHANGED ovars

\* handleNewMessage 125-129 / processMediaGroup 199-203
Dispatch(t, n) ==
  IF useQueue THEN listenerAddToQueueStart(t, n) ELSE processAndPostStart(t, n)

\* processMediaGroup 206-208: mediaGroups.delete, mediaGroupTimers.delete
\* (the timer itself is not cleared)
GroupCleanup(t) ==
  LET g == tasks[t].g IN
  /\ mediaGroups' = [mediaGroups EXCEPT ![g] = 0]
  /\ timerMap' = [timerMap EXCEPT ![g] = "absent"]
  /\ orphans' = [orphans EXCEPT ![g] = IF timerMap[g] = "armed" THEN @ + 1 ELSE @]

\* the handler returns: handleNewMessage 130, or processMediaGroup 206-209
Finish(t) ==
  /\ tasks' = [tasks EXCEPT ![t] = Free]
  /\ IF tasks[t].g = 0
     THEN UNCHANGED <<mediaGroups, timerMap, orphans>>
     ELSE GroupCleanup(t)

\* handleNewMessage 117-130: extractImages returned (ok: one image downloaded)
ExtractDone(t, ok) ==
  /\ tasks[t].pc = "extract"
  /\ IF ok
     THEN Dispatch(t, 1) /\ UNCHANGED <<mediaGroups, timerMap, orphans>>
     ELSE Finish(t) /\ UNCHANGED <<ovars, qvars>>
  /\ UNCHANGED <<tempCleanupEnabled, arrived, arrays, nextArr>>

\* processMediaGroup 160-175: a timer callback, up to the first extractImages
processMediaGroup(g) ==
  IF mediaGroups[g] = 0
  THEN UNCHANGED tasks
  ELSE /\ FreeTasks # {}
       /\ tasks' = [tasks EXCEPT ![FreeTask] =
                      [pc |-> "gextract", g |-> g, arr |-> mediaGroups[g], i |-> 1, imgs |-> 0]]

\* handleMediaGroupMessage 153-155: the timer stored in mediaGroupTimers fires
TimerFire(g) ==
  /\ timerMap[g] = "armed"
  /\ timerMap' = [timerMap EXCEPT ![g] = "fired"]
  /\ processMediaGroup(g)
  /\ UNCHANGED <<ovars, qvars, tempCleanupEnabled, arrived, arrays, nextArr, mediaGroups, orphans>>

\* a timer that is no longer stored in mediaGroupTimers fires
OrphanFire(g) ==
  /\ orphans[g] > 0
  /\ orphans' = [orphans EXCEPT ![g] = @ - 1]
  /\ processMediaGroup(g)
  /\ UNCHANGED <<ovars, qvars, tempCleanupEnabled, arrived, arrays, nextArr, mediaGroups, timerMap>>

\* processMediaGroup 174-204: extractImages of message i returned; the
\* for-of loop sees the messages pushed to the array in the meantime
GroupExtractDone(t, ok) ==
  /\ tasks[t].pc = "gextract"
  /\ LET n == tasks[t].imgs + (IF ok THEN 1 ELSE 0)
         limited == Min(n, maxImagesPerPost)
     IN IF tasks[t].i < arrays[tasks[t].arr]
        THEN /\ tasks' = [tasks EXCEPT ![t].i = @ + 1, ![t].imgs = n]
             /\ UNCHANGED <<ovars, qvars, mediaGroups, timerMap, orphans>>
        ELSE IF limited > 0
             THEN Dispatch(t, limited) /\ UNCHANGED <<mediaGroups, timerMap, orphans>>
             ELSE Finish(t) /\ UNCHANGED <<ovars, qvars>>
  /\ UNCHANGED <<tempCleanupEnabled, arrived, arrays, nextArr>>

\* TelegramListener.addToQueue 278-285: queueManager.addToQueue returned
LogQueuedDone(t) ==
  /\ tasks[t].pc = "logQueued"
  /\ Finish(t)
  /\ UNCHANGED <<ovars, qvars, tempCleanupEnabled, arrived, arrays, nextArr>>

\* processAndPost 294-310: the watermarked images are there (the original
\* image stands in for a failed watermark), buildCaption is called
WatermarkDone(t) ==
  /\ tasks[t].pc = "watermark"
  /\ tasks' = [tasks EXCEPT ![t].pc = "caption"]
  /\ UNCHANGED <<ovars, qvars, tempCleanupEnabled, arrived, arrays, nextArr, mediaGroups,
                 timerMap, orphans>>

\* processAndPost 310-317: buildCaption returned, twitterPoster.postTweet is called
CaptionDone(t) ==
  /\ tasks[t].pc = "caption"
  /\ tasks' = [tasks EXCEPT ![t].pc = "postTweet"]
  /\ UNCHANGED <<ovars, qvars, tempCleanupEnabled, arrived, arrays, nextArr, mediaGroups,
                 timerMap, orphans>>

\* processAndPost 317-328: postTweet settled (ok: it resolved with a URL)
PostTweetSettled(t, ok) ==
  /\ tasks[t].pc = "postTweet"
  /\ tasks' = [tasks EXCEPT ![t].pc = IF ok THEN "logSuccess" ELSE "logError"]
  /\ UNCHANGED <<ovars, qvars, tempCleanupEnabled, arrived, arrays, nextArr, mediaGroups,
                 timerMap, orphans>>

\* processAndPost 329-347: the finally block
LogResultDone(t) ==
  /\ tasks[t].pc \in {"logSuccess", "logError"}
  /\ IF tempCleanupEnabled
     THEN /\ tasks' = [tasks EXCEPT ![t].pc = "cleanup"]
          /\ UNCHANGED <<mediaGroups, timerMap, orphans>>
     ELSE Finish(t)
  /\ UNCHANGED <<ovars, qvars, tempCleanupEnabled, arrived, arrays, nextArr>>

\* processAndPost 331-346: the temp files are removed
CleanupDone(t) ==
  /\ tasks[t].pc = "cleanup"
  /\ Finish(t)
  /\ UNCHANGED <<ovars, qvars, tempCleanupEnabled, arrived, arrays, nextArr>>

Receive ==
  \/ ReceiveIgnored
  \/ ReceivePhoto
  \/ \E g \in Groups : ReceiveGroupMessage(g)

Timers == \E g \in Groups : TimerFire(g) \/ OrphanFire(g)

TaskStep ==
  \E t \in Tasks :
    \/ \E ok \in BOOLEAN : ExtractDone(t, ok)
    \/ \E ok \in BOOLEAN : GroupExtractDone(t, ok)
    \/ WatermarkDone(t)
    \/ CaptionDone(t)
    \/ \E ok \in BOOLEAN : PostTweetSettled(t, ok)
    \/ LogResultDone(t)
    \/ CleanupDone(t)

ListenerNext ==
  \/ Receive
  \/ Timers
  \/ TaskStep

\* the producer as index.js wires it: the listener, the poster behind it
LInit ==
  /\ QInit
  /\ env = [QUEUE_POST_DELAY |-> <<>>, QUEUE_MAX_RETRIES |-> <<>>, QUEUE_RETRY_DELAY |-> <<>>]
  /\ producer = "listener"
  /\ ListenerInit
  /\ tempCleanupEnabled \in BOOLEAN
  /\ PosterIdle
  /\ PublishIdle
  /\ UploadIdle
  /\ CaptionIdle
  /\ LoggerIdle

ListenerSpec == LInit /\ [][ListenerNext]_vars

\* C1: at most one postTweet call is executing at any time.
C1_NoOverlap ==
  Cardinality({t \in Tasks : tasks[t].pc = "postTweet"}) <= 1

(* --------------------------- specifications --------------------------- *)
WorkerStep ==
  \E w \in Workers :
    \/ LogProcessingDone(w)
    \/ ProcessorOk(w)
    \/ ProcessorThrow(w)
    \/ LogWaitingDone(w)
    \/ LogErrorDone(w)
    \/ LogRetryDone(w)
    \/ DelayDone(w)
    \/ LogFailedDone(w)
    \/ LogCompletedDone(w)

Clock == \E d \in TickSteps : Tick(d)

\* the steps the event loop takes by itself once the jobs are enqueued
Progress ==
  \/ AddToQueueResume
  \/ WorkerStep
  \/ Clock

NextLive ==
  \/ CallerAddToQueue
  \/ ListenerAddToQueue
  \/ Progress

Next ==
  \/ NextLive
  \/ Sigint
  \/ SigintLogClearedDone
  \/ SigintExit

Init == QInit /\ ListenerInit /\ tempCleanupEnabled = FALSE /\ PosterIdle /\ PublishIdle /\ UploadIdle
          /\ CaptionIdle /\ LoggerIdle

\* QueueManager driven through its interface, with the shutdown handler
Spec == Init /\ [][Next]_vars

\* the same without SIGINT; every await resolves and every timer fires
LiveSpec == Init /\ [][NextLive]_vars /\ WF_vars(Progress)

\* the state in which TwitterPoster is constructed
PInit ==
  /\ QInit
  /\ env = [QUEUE_POST_DELAY |-> <<>>, QUEUE_MAX_RETRIES |-> <<>>, QUEUE_RETRY_DELAY |-> <<>>]
  /\ producer = "listener"
  /\ ListenerInit
  /\ tempCleanupEnabled = FALSE
  /\ PosterInit
  /\ twitterEnv \in [TWITTER_MAX_RETRIES : EnvTwitterMaxRetries,
                      TWITTER_RETRY_DELAY : EnvTwitterRetryDelay]
  /\ PublishIdle
  /\ UploadIdle
  /\ CaptionIdle
  /\ LoggerIdle

\* TwitterPoster driven through postTweet
PosterSpec == PInit /\ [][PosterNext]_vars

\* addCaption has returned: the compose surface is open
VInit ==
  /\ QInit
  /\ env = [QUEUE_POST_DELAY |-> <<>>, QUEUE_MAX_RETRIES |-> <<>>, QUEUE_RETRY_DELAY |-> <<>>]
  /\ producer = "listener"
  /\ ListenerInit
  /\ tempCleanupEnabled = FALSE
  /\ PosterIdle
  /\ pg \in ComposePages
  /\ profileLinks \in BOOLEAN
  /\ pub = NoPublish
  /\ changes = 0
  /\ UploadIdle
  /\ CaptionIdle
  /\ LoggerIdle

\* one publishTweet call against a site that answers the clicks
PublishSpec == VInit /\ [][PublishNext]_vars

\* navigateToCompose has returned
UInit ==
  /\ QInit
  /\ env = [QUEUE_POST_DELAY |-> <<>>, QUEUE_MAX_RETRIES |-> <<>>, QUEUE_RETRY_DELAY |-> <<>>]
  /\ producer = "listener"
  /\ ListenerInit
  /\ tempCleanupEnabled = FALSE
  /\ PosterIdle
  /\ PublishIdle
  /\ UploadIdle
  /\ CaptionIdle
  /\ LoggerIdle

\* one uploadImages call
UploadSpec == UInit /\ [][UploadNext]_vars

\* uploadImages has returned
CInit ==
  /\ QInit
  /\ env = [QUEUE_POST_DELAY |-> <<>>, QUEUE_MAX_RETRIES |-> <<>>, QUEUE_RETRY_DELAY |-> <<>>]
  /\ producer = "listener"
  /\ ListenerInit
  /\ tempCleanupEnabled = FALSE
  /\ PosterIdle
  /\ PublishIdle
  /\ UploadIdle
  /\ CaptionIdle
  /\ LoggerIdle

\* one addCaption call
CaptionSpec == CInit /\ [][CaptionNext]_vars

\* the logger as the module exports it; the log group is configured or not
GInit ==
  /\ QInit
  /\ env = [QUEUE_POST_DELAY |-> <<>>, QUEUE_MAX_RETRIES |-> <<>>, QUEUE_RETRY_DELAY |-> <<>>]
  /\ producer = "listener"
  /\ ListenerInit
  /\ tempCleanupEnabled = FALSE
  /\ PosterIdle
  /\ PublishIdle
  /\ UploadIdle
  /\ CaptionIdle
  /\ \E g \in BOOLEAN : lg = [NoLogger EXCEPT !.logGroupId = g]

\* the TelegramLogger driven through initialize, log and sendPhoto
LoggerSpec == GInit /\ [][LoggerNext]_vars

\* the same; every promise of the loop settles, every timer fires, every
\* setImmediate callback runs
LoggerLiveSpec ==
  /\ GInit
  /\ [][LoggerNext]_vars
  /\ WF_vars(ImmediateRun)
  /\ WF_vars(\E outcome \in SendOutcomes : SendMessageDone(outcome))
  /\ WF_vars(WaitDone)
  /\ WF_vars(LoggerTick)

(* ======================= properties of the queue ====================== *)
InLoop == {w \in Workers : workers[w].pc \in LoopPcs}
InProcessPost == {w \in Workers : workers[w].pc = "processor"}
Enqueued == 1..(nextId - 1)

\* C2: at most one processQueue invocation is inside its while loop (lines
\* 39-83) and at most one job is inside processPost, whatever addToQueue calls
\* arrive while the worker is suspended; isProcessing is set as long as an
\* invocation is in its loop.
C2_SingleWorker ==
  /\ Cardinality(InLoop) <= 1
  /\ Cardinality(InProcessPost) <= 1
  /\ InLoop # {} => isProcessing

\* an addToQueue call is suspended at its logger call while the worker is in
\* processPost with a backlog
C2_Witness ==
  \E w \in Workers : workers[w].pc = "processor" /\ pendingAdds > 0 /\ Len(queue) > 1

\* C3: every job enqueued by the listener's addToQueue is run through the
\* publish pipeline by processPost: such a job fails only after its pipeline ran.
C3_ListenerJobsPublished ==
  producer = "listener" => \A j \in Enqueued : hist[j].fails > 0 => hist[j].pipeline > 0

\* C4: jobs start processing in the order they were enqueued, a retried job
\* first: the job started last was not enqueued before the one started before
\* it, a job being processed was enqueued before every job of the backlog, and
\* a re-queued job is at the head of the backlog.
C4_Fifo ==
  /\ started[1] <= started[2]
  /\ \A w \in Workers : workers[w].pc \in InFlightPcs =>
        \A i \in 1..Len(queue) : workers[w].postData.id < queue[i].id
  /\ \A w \in Workers :
        (workers[w].pc \in {"logRetry", "retryDelay"} /\ workers[w].postData.id \in QueueIds)
          => Head(queue).id = workers[w].postData.id

\* a retried job is being processed again while a job enqueued later waits
C4_Witness ==
  \E w \in Workers : /\ workers[w].pc = "logProcessing"
                     /\ workers[w].postData.retries > 0
                     /\ Len(queue) > 0

\* C5: a job that starts after a successful job that left a backlog starts at
\* least postDelay after that job completed; and the inter-post delay is only
\* waited when the completed job left a backlog.
C5_InterPostDelay ==
  /\ startGap # -1 => startGap >= postDelay
  /\ \A w \in Workers : workers[w].pc \in {"logWaiting", "postDelay"} => sinceOk >= 0

\* the second of two queued jobs has started after the first one succeeded
C5_Witness ==
  /\ startGap # -1
  /\ \E w \in Workers : workers[w].pc = "processor" /\ workers[w].postData.retries = 0

\* C6: a job is reported as a terminal failure at most once, only after it
\* failed maxRetries + 1 times, and once its last failure has been handled it
\* has been reported; a reported job is neither in the backlog nor processed.
C6_TerminalOnce ==
  \A j \in Jobs :
    /\ hist[j].reported <= 1
    /\ hist[j].reported = 1 =>
         /\ hist[j].fails = maxRetries + 1
         /\ hist[j].runs = maxRetries + 1
         /\ j \notin QueueIds
         /\ \A w \in Workers : workers[w].postData.id = j => workers[w].pc = "logFailed"
    /\ ( /\ hist[j].fails = maxRetries + 1
         /\ \A w \in Workers : ~(workers[w].pc = "logError" /\ workers[w].postData.id = j) )
       => hist[j].reported = 1

\* a job has been reported as dropped while another job waits in the backlog
C6_Witness ==
  \E j \in Jobs : hist[j].reported = 1 /\ Len(queue) > 0

\* C7: a job is processed at most maxRetries + 1 times, a job of the backlog
\* has been retried at most maxRetries times, and a job whose budget is
\* exhausted is not re-queued.
C7_BoundedRetries ==
  /\ \A j \in Jobs : hist[j].runs <= maxRetries + 1
  /\ \A i \in 1..Len(queue) : queue[i].retries <= maxRetries
  /\ \A w \in Workers : workers[w].pc = "logFailed" =>
        /\ workers[w].postData.retries = maxRetries
        /\ workers[w].postData.id \notin QueueIds

\* a job has used its whole budget and is being dropped
C7_Witness ==
  \E w \in Workers : /\ workers[w].pc = "logFailed"
                     /\ hist[workers[w].postData.id].runs = maxRetries + 1

\* C8: after the k-th failure of a job within its budget the worker waits
\* config.queue.retryDelay * k.
C8_ConfiguredBackoff ==
  \A w \in Workers : workers[w].pc = "retryDelay" =>
     workers[w].delayMs = configQueue.retryDelay * workers[w].postData.retries

\* every enqueued job has ended as a success or as a reported drop
Settled ==
  /\ queue = <<>>
  /\ ~isProcessing
  /\ \A j \in Enqueued : hist[j].ok = 1 \/ hist[j].reported = 1

\* C9: a non-empty backlog with isProcessing = false always has an addToQueue
\* call about to start the worker, and when every await resolves and every
\* timer fires the queue ends empty and idle with every enqueued job
\* succeeded or dropped.
C9_NoStrandedJob ==
  /\ []((queue # <<>> /\ ~isProcessing) => pendingAdds > 0)
  /\ <>[]Settled

\* all the jobs of a run were enqueued and the queue has settled
C9_Witness ==
  /\ nextId = MaxJobs + 1
  /\ pendingAdds = 0
  /\ Settled
  /\ \A w \in Workers : workers[w].pc = "idle"

\* C10: the step of the SIGINT handler that calls clearQueue leaves the
\* backlog empty and gets the length the backlog had before the call.
C10_Drain ==
  [][(shutdown = "running" /\ shutdown' # "running")
       => (queue' = <<>> /\ clearedCount' = Len(queue))]_vars

\* clearQueue has removed two jobs or more
C10_Witness ==
  shutdown # "running" /\ clearedCount >= 2 /\ queue = <<>>


(* ---------------------- TwitterPoster: properties --------------------- *)
\* the phase an await belongs to
PhaseOf(pc) == IF pc \in InitPcs THEN "initializeBrowser" ELSE pc

\* the awaits of the try block after publishTweet returned
SuccessPcs == {"logSuccess", "deleteImageFiles", "returned"}

\* C11: a postTweet call is never pending for more than 120 s, and a call whose
\* chain is blocked in a phase for ever ends with the timeout error, 120 s at most
\* after it was made.
C11_Deadline ==
  \A c \in Calls :
    /\ calls[c].state \in {"pending", "timeout"} => calls[c].age <= 120000
    /\ runs[c].hung /\ calls[c].state # "pending" => calls[c].state = "timeout"

C11_Witness ==
  \E c \in Calls : runs[c].hung /\ calls[c].state = "timeout" /\ calls[c].age = 120000

\* C12: after postTweet has rejected with the timeout error, the chain of that call
\* starts no further phase and no further try.
C12_NothingAfterTimeout ==
  \A c \in Calls : calls[c].state = "timeout" => ~runs[c].latePhase

\* C13: once postTweet has settled, its chain reports no success and no failure,
\* submits no tweet and deletes no staged file.
C13_NothingAfterResult ==
  \A c \in Calls : calls[c].state \in {"resolved", "rejected", "timeout"} => ~runs[c].lateEvent

\* C14: a call makes at most maxRetries + 1 tries; every try but the running or the
\* successful one has failed; a call is rejected by its chain only after try
\* maxRetries + 1, with the error of that try.
C14_BoundedTries ==
  \A c \in Calls :
    /\ runs[c].tries <= twitterMaxRetries + 1
    /\ runs[c].tries = runs[c].fails +
          (IF runs[c].pc \in {"logStart"} \cup PhasePcs \cup SuccessPcs THEN 1 ELSE 0)
    /\ runs[c].pc = "thrown" => runs[c].tries = twitterMaxRetries + 1
    /\ calls[c].state = "rejected" =>
          /\ runs[c].pc = "thrown"
          /\ calls[c].error = runs[c].tries

C14_Witness ==
  \E c \in Calls : calls[c].state = "rejected" /\ runs[c].tries = 3 /\ calls[c].error = 3

\* C15: a chain that succeeds on try k has called closeBrowser k - 1 times and has
\* reported success once; a chain that has not succeeded has reported no success.
C15_TeardownsBeforeSuccess ==
  \A c \in Calls :
    IF runs[c].pc \in SuccessPcs
    THEN runs[c].succ = 1 /\ runs[c].closes = runs[c].tries - 1
    ELSE runs[c].succ = 0

C15_Witness ==
  \E c \in Calls : runs[c].pc = "returned" /\ runs[c].tries = 2 /\ runs[c].closes = 1

\* C16: no try finds this.browser set when it calls initializeBrowser.
C16_FreshBrowser ==
  \A c \in Calls : ~runs[c].reused

\* C17: when closeBrowser has returned to the catch block, browser, page and
\* isLoggedIn are reset and no browser process is running, whether this.browser
\* was set or not and whether browser.close() resolved, rejected or hung.
C17_TeardownIdempotent ==
  \A c \in Calls :
    runs[c].pc \in {"logRetry", "logGiveUp"} =>
      /\ browser = 0
      /\ page = 0
      /\ ~isLoggedIn
      /\ alive = {}

\* the second closeBrowser in a row: this.browser was already null
C17_Witness ==
  \E c \in Calls :
    /\ runs[c].pc \in {"logRetry", "logGiveUp"}
    /\ runs[c].closes = 2
    /\ runs[c].target = 0

\* the phases started so far in the try are the first phases of the order, the last
\* of them is the one awaited, and success is reported after all of them
PhasesInOrder(r) ==
  /\ Len(r.trace) <= Len(PhaseOrder)
  /\ \A i \in 1..Len(r.trace) : r.trace[i] = PhaseOrder[i]
  /\ r.pc \in PhasePcs => r.trace # <<>> /\ r.trace[Len(r.trace)] = PhaseOf(r.pc)
  /\ r.pc = "logSuccess" => r.trace = PhaseOrder
  /\ r.pc \in {"screenshot", "closing", "logRetry", "backoff", "logGiveUp"} => r.trace = <<>>

\* C18: in one try the phases start in the order of PhaseOrder, none skipped or
\* repeated, each after the previous one returned, and the step in which a phase
\* throws starts no phase.
C18_PhaseOrder ==
  /\ [](\A c \in Calls : PhasesInOrder(runs[c]))
  /\ [][\A c \in Calls : runs'[c].pc = "logFail" /\ runs[c].pc # "logFail"
                            => runs'[c].trace = runs[c].trace]_vars

C18_Witness ==
  \E c \in Calls : runs[c].pc = "logSuccess" /\ runs[c].trace = PhaseOrder


\* C19: when the site, after the first executed click, shows exactly one of the four
\* success signals and does not change by itself, publishTweet ends with success.
C19_AnySignalSuffices ==
  pub.pc = "done" /\ pub.steady
                  /\ pub.scenario \in {"url", "composeGone", "notice", "button"}
    => pub.result = "success"

\* C20: when a round of verifyTweetSuccess has seen a success signal, publishTweet
\* ends with success.
C20_LookupIndependent ==
  pub.pc = "done" /\ pub.observed => pub.result = "success"


\* C21: verifyTweetSuccess runs at most maxWaitTime / checkInterval = 20 polling
\* rounds; every round that ends without a result, a round in which an error was
\* thrown included, consumes exactly one interval of the window; and when no round
\* has observed a success signal the poll ends with the verification error, after
\* the 20th round, although publishTweet had completed.
C21_BoundedPoll ==
  /\ pub.rounds <= maxWaitTime \div checkInterval
  /\ pub.pc = "verify" => pub.waitTime = pub.rounds * checkInterval
  /\ pub.pc \in {"extract", "gotoProfile"}
       => pub.waitTime = (pub.rounds - 1) * checkInterval
  /\ (pub.pc = "done" /\ pub.rounds > 0 /\ ~pub.observed)
       => /\ pub.result = "verificationFailed"
          /\ pub.rounds = maxWaitTime \div checkInterval

C21_Witness ==
  /\ pub.pc = "done"
  /\ pub.result = "verificationFailed"
  /\ pub.rounds = 20
  /\ ~pub.observed
  /\ pub.erred


\* a step of the code that leaves the page as it is
CodeStep == pub' # pub /\ pg' = pg

\* C26: publishTweet starts at most maxPublishAttempts = 5 submit rounds; the round
\* that finds no Post button while the compose surface is open throws if and only
\* if it is the fifth; after the rounds, publishTweet throws when no click was
\* confirmed and the compose surface is still open, and it enters
\* verifyTweetSuccess only when a click was confirmed or the compose surface is
\* closed.
C26_SubmitBounded ==
  /\ [](/\ pub.submits <= maxPublishAttempts
        /\ pub.result = "noPostButton" => pub.submits = maxPublishAttempts
        /\ pub.result = "modalStillOpen" => ~pub.publishSuccess)
  /\ [][(pub.pc = "round" /\ CodeStep /\ isComposeModalOpen(pg) /\ pg.button = "absent")
          => IF pub.submits = maxPublishAttempts - 1
             THEN pub'.pc = "done" /\ pub'.result = "noPostButton"
             ELSE pub'.pc = "round"]_vars
  /\ [][(pub.pc = "final" /\ CodeStep)
          => IF ~pub.publishSuccess /\ isComposeModalOpen(pg)
             THEN pub'.pc = "done" /\ pub'.result = "modalStillOpen"
             ELSE pub'.pc = "verify"]_vars
  /\ [][(pub.pc # "verify" /\ pub'.pc = "verify" /\ pub'.rounds = 0)
          => pub.pc = "final" /\ (pub.publishSuccess \/ ~isComposeModalOpen(pg))]_vars

C26_Witness ==
  /\ pub.pc = "done"
  /\ pub.result = "modalStillOpen"
  /\ pub.submits = 5
  /\ isComposeModalOpen(pg)

\* C27: inside one submit round the click methods run in the order 0, 1, 2, 3, 4;
\* a validation that confirms a click ends the round and the loop of rounds, so
\* that no further method runs; a method that throws is followed by the next
\* method of the same round.
C27_FirstConfirmedStops ==
  /\ [][(pub.pc \in {"validate", "validateWait"} /\ pub'.pc = "click")
          => /\ pub'.methodIndex = pub.methodIndex + 1
             /\ pub'.publishAttempt = pub.publishAttempt]_vars
  /\ [][(pub.pc = "validate" /\ CodeStep /\ ClickConfirmed(pg))
          => pub'.pc = "final" /\ pub'.publishSuccess]_vars
  /\ [][(pub.pc = "validateWait" /\ CodeStep /\ ~pg.textarea)
          => pub'.pc = "final" /\ pub'.publishSuccess]_vars
  /\ [][(pub.pc = "final") => pub'.pc \in {"final", "verify", "done"}]_vars
  /\ [][(pub.pc = "click" /\ CodeStep /\ pub'.pc # "validate"
           /\ pub.methodIndex < clickMethodCount - 1)
          => /\ pub'.pc = "click"
             /\ pub'.methodIndex = pub.methodIndex + 1
             /\ pub'.publishAttempt = pub.publishAttempt]_vars

C27_Witness ==
  /\ pub.pc = "final"
  /\ pub.publishSuccess
  /\ pub.skipped


\* the call whose image files disk.files describes
Latest(c) == calls[c].state # "none" /\ \A d \in Calls : d > c => calls[d].state = "none"

C30_SessionWrites ==
  /\ [](\A c \in Calls : runs[c].saved
          => /\ runs[c].login = "interactive"
             /\ runs[c].pc = NextPhase("ensureLoggedIn")
             /\ isLoggedIn)
  /\ [][\/ disk'.session = disk.session
        \/ \E c \in Calls : /\ runs[c].pc = "ensureLoggedIn"
                            /\ runs'[c].login = "interactive"
                            /\ runs'[c].saved
                            /\ disk'.session = page]_vars

C30_Witness ==
  \E c \in Calls :
    /\ runs[c].saved
    /\ runs[c].login = "interactive"
    /\ disk.session = page
    /\ page # 0


\* C24: a diagnostic screenshot that fails never makes the phase that takes it throw.
C24_ScreenshotNeverFails ==
  ~(up.pc = "done" /\ up.result = "failed" /\ up.error = "screenshot")

UploadChecks ==
  /\ [](up.polls <= maxAttempts)
  /\ [][(up.pc = "poll" /\ up'.found = up.expected /\ up' # up)
          => up'.pc = "errorProbe"]_vars
  /\ [][(up.pc = "poll" /\ up'.pc \notin {"poll", "errorProbe", "done"})
          => up'.pc = "debugShot" /\ up'.polls = maxAttempts
             /\ up'.found # up.expected]_vars
  /\ [][(up.pc = "debugShot" /\ up' # up) => up'.pc = "errorProbe"]_vars

\* C29 (as stated): uploadImages polls at most 3 times, stops at the first round
\* whose count equals the expected count, goes on after an undercount, and throws
\* only when no file input was found.
C29_OnlyMissingInputFails ==
  /\ UploadChecks
  /\ []((up.pc = "done" /\ up.result = "failed") => ~up.fileInput)

\* C29 (amended): uploadImages polls at most 3 times, stops at the first round
\* whose count equals the expected count, goes on after an undercount whatever the
\* outcome of its screenshot, and throws when no file input was found directly or
\* after the click on a media button; with a file input it throws only when the
\* upload, the wait between two rounds, the probe for error indicators or the
\* screenshot of an error indicator rejects, never because of the count.
C29_SoftMediaCheck ==
  /\ UploadChecks
  /\ [](up.error = "noFileInput" <=> (up.pc = "done" /\ up.viaButton /\ ~up.fileInput))
  /\ []((up.pc = "done" /\ up.result = "failed" /\ up.fileInput)
          => up.error \in {"uploadFile", "wait", "probe", "screenshot"})
  /\ [][(up'.result = "failed" /\ up.result = "none")
          => up.pc \in {"mediaButton", "uploadFile", "poll", "errorProbe", "errorShot"}]_vars
  /\ [][(up'.result = "failed" /\ up.pc = "poll") => up'.found = up.found]_vars

C29_Witness ==
  /\ up.pc = "done"
  /\ up.result = "completed"
  /\ up.polls = 3
  /\ up.found # up.expected
  /\ up.debug = "failed"


\* the first 20 characters of the caption have reached the surface in the first
\* typing, whatever became of the rest
HeadIntact ==
  /\ Len(cap.firstTyped) >= Len(Substring(cap.caption, prefixLen))
  /\ Substring(cap.firstTyped, prefixLen) = Substring(cap.caption, prefixLen)

\* C22: a readback that shows the first 20 characters of the caption counts as a
\* match, also when the rest was mistyped, and the caption is not retyped; after
\* each outcome of the readback (match, mismatch, element absent) addCaption goes on
\* to the trailing space and returns: it throws only when no text area was found or
\* a page operation rejects, never because of what was read back.
C22_ReadbackSoft ==
  /\ []((cap.outcome \in {"match", "mismatch"} /\ HeadIntact)
          => cap.outcome = "match" /\ cap.typings = 1)
  /\ []((cap.pc = "done" /\ cap.outcome # "none" /\ cap.error # "page")
          => cap.result = "completed")
  /\ [][(cap.pc = "readback" /\ cap'.error # "page" /\ cap' # cap)
          => /\ cap'.pc \in {"space", "fallback"}
             /\ cap'.outcome \in {"match", "mismatch", "absent"}]_vars
  /\ [][(cap.pc = "fallback" /\ cap'.error # "page" /\ cap' # cap)
          => cap'.pc = "space"]_vars
  /\ [][(cap.pc = "space" /\ cap'.error # "page" /\ cap' # cap)
          => cap'.pc = "done" /\ cap'.result = "completed"]_vars

C22_Witness ==
  /\ cap.pc = "done"
  /\ cap.result = "completed"
  /\ cap.outcome = "match"
  /\ Len(cap.caption) > prefixLen
  /\ cap.firstTyped # cap.caption

\* C28: a completed addCaption has typed the caption twice after a mismatch of the
\* readback and once otherwise, has read the text back at most once, and has typed
\* the space once, as its last keystroke: the surface shows what the last typing
\* left there followed by one space, and nothing of an earlier typing.
C28_RetypeOnce ==
  /\ cap.typings <= 2 /\ cap.readbacks <= 1 /\ cap.spaces <= 1
  /\ (cap.pc = "done" /\ cap.result = "completed")
       => /\ cap.typings = IF cap.outcome = "mismatch" THEN 2 ELSE 1
          /\ cap.spaces = 1
          /\ cap.text = cap.lastTyped \o <<Space>>

C28_Witness ==
  /\ cap.pc = "done"
  /\ cap.result = "completed"
  /\ cap.outcome = "mismatch"
  /\ cap.firstTyped # <<>>
  /\ cap.typings = 2
  /\ cap.text = cap.caption \o <<Space>>

\* C31: every try reads the persisted session before the authenticated-area check:
\* a chain reaches ensureLoggedIn only from the await of loadCookies, also in the
\* first try of a call that follows a successful call.
C31_SessionReadEachTry ==
  [][\A c \in Calls :
       (runs[c].pc # "ensureLoggedIn" /\ runs'[c].pc = "ensureLoggedIn")
         => runs[c].pc = "loadCookies"]_vars

\* C34: the 5 s timer of a closeBrowser kills no browser but the one that
\* closeBrowser is closing: when the timer of a call fires and a browser process
\* ends, the closeBrowser of the call still awaits its race and the process is the
\* one whose close() it called, never a browser launched afterwards.
C34_KillsOwnBrowserOnly ==
  [][\A c \in Calls :
       (killTimer[c] = 0 /\ killTimer'[c] = -1 /\ alive' # alive)
         => /\ runs[c].pc = "closing"
            /\ alive \ alive' = {runs[c].target}]_vars

\* the value of QUEUE_MAX_RETRIES as configured: the number it is set to, 2 when unset
ConfiguredQueueRetries ==
  IF env.QUEUE_MAX_RETRIES = <<>> THEN 2 ELSE env.QUEUE_MAX_RETRIES[1]

\* C38: the retry budget of the queue is the configured value, 0 included: a job
\* is processed at most QUEUE_MAX_RETRIES + 1 times, so once when it is set to 0.
C38_ConfiguredBudget ==
  \A j \in Jobs : hist[j].runs <= ConfiguredQueueRetries + 1

\* C37: after clearQueue has returned the backlog grows only by a new addToQueue:
\* a job that was in flight during the drain and fails afterwards is not put back.
C37_DrainedStaysDrained ==
  [][(shutdown # "running" /\ Len(queue') > Len(queue)) => nextId' = nextId + 1]_vars

\* C36: the inter-post delay separates any two jobs processed one after the other:
\* a processQueue loop that has finished with one job, as a success or as a drop,
\* starts another job only as the step that ends a wait of postDelay.
C36_SpacingAfterEveryJob ==
  [][\A w \in Workers :
       ( /\ workers[w].pc \in LoopPcs \ {"logProcessing"}
         /\ workers'[w].pc = "logProcessing"
         /\ workers'[w].postData.id # workers[w].postData.id )
       => /\ workers[w].pc = "postDelay"
          /\ workers[w].delayMs = postDelay
          /\ workers[w].timer = 0]_vars

\* C39: one job per media group: the messages stored for a group are handed to
\* one run of processMediaGroup only, so no two running handlers hold the same
\* message array and no image of the group is posted twice.
C39_OneJobPerGroup ==
  \A t, u \in Tasks :
    (t # u /\ tasks[t].arr # 0) => tasks[t].arr # tasks[u].arr

\* C35: the post of a call is submitted at most once: when the submit click of
\* one try has published the post, no later try of the call starts publishTweet,
\* also when that try was judged failed by verifyTweetSuccess.
C35_SubmittedOnce ==
  \A c \in Calls :
    (runs[c].posted # 0 /\ runs[c].pc = "publishTweet")
      => runs[c].posted = runs[c].attempt + 1

\* C32: any two consecutive sends to the log group, text or photo, are at least
\* 1 s apart.
C32_SendsOneSecondApart ==
  lg.gap = -1 \/ lg.gap >= sendIntervalMs

\* C33: the sending of the queued log messages ends: a running processMessageQueue
\* loop always terminates, also when every send fails with a temporary error.
C33_QueueDrains ==
  lg.isProcessingQueue ~> ~lg.isProcessingQueue

=============================================================================
